---- MODULE Spec2Model ----
(***************************************************************************)
(* State-machine model of the CoG retrieval / metric-learning programs:    *)
(*   - the two search programs (triplet_similarity.main and                *)
(*     triplet_similarity_baseline.main),                                  *)
(*   - TripletDataset (train_triplet.py),                                  *)
(*   - Projector (prepare_triplet_data.py).                                *)
(* Floating-point similarities are modelled as integers (only their order  *)
(* and equality are observable in the ranking code); a stored vector is    *)
(* the record of its size, its cosine to the query and its cosine to the   *)
(* query in the head space.                                                *)
(***************************************************************************)
EXTENDS Integers, Sequences, FiniteSets, TLC

\* ------------------------------------------------------------------ bounds
MaxRows == 3          \* rows of the embedding table
MaxK == 2             \* largest --topk and largest COARSE_TOPK drawn

\* ------------------------------------------------------ program constants
EMBED_DIM == 2        \* TRIPLET_EMBED_DIM, scaled down from 1024

\* ------------------------------------------------------------ generic help
Min(a, b) == IF a <= b THEN a ELSE b
Max(a, b) == IF a >= b THEN a ELSE b
Range(s) == {s[i] : i \in 1..Len(s)}

\* Python's seq[:k] for any integer k (a negative k counts from the end).
PySlicePrefix(s, k) ==
    IF k >= 0 THEN SubSeq(s, 1, Min(k, Len(s)))
    ELSE SubSeq(s, 1, Max(0, Len(s) + k))

\* list.sort(key=lambda x: x[0], reverse=True): stable, descending by sim.
RECURSIVE InsertDesc(_, _)
InsertDesc(sorted, x) ==
    IF sorted = <<>> THEN <<x>>
    ELSE IF Head(sorted).sim >= x.sim
         THEN <<Head(sorted)>> \o InsertDesc(Tail(sorted), x)
         ELSE <<x>> \o sorted

SortSkipped(s) == s

RECURSIVE SortDescBySim(_)
SortDescBySim(s) ==
    IF s = <<>> THEN <<>>
    ELSE InsertDesc(SortDescBySim(SubSeq(s, 1, Len(s) - 1)), s[Len(s)])

\* ----------------------------------------------------------- input domains
IdSeq == <<"A", "B">>
Ids == Range(IdSeq)
SideSeq == <<"popfile1", "popfile2">>
Sides == Range(SideSeq)
Sims == 1..2

\* abandoned_animals: the entity record joined to every embedding row.
Animals ==
    [d \in Ids |->
        IF d = "A"
        THEN [up_kind_cd |-> "417000", sex_cd |-> "M", notice_sdt |-> "2024-01-02"]
        ELSE [up_kind_cd |-> "422400", sex_cd |-> "f", notice_sdt |-> ""]]

\* A stored vector: its size, cosine to the query, head-space cosine to the query.
UsableVecs == [size : {EMBED_DIM}, cos : Sims, head : Sims]
OversizeVec == [size |-> EMBED_DIM + 1, cos |-> 1, head |-> 1]
VecSet == UsableVecs \cup {OversizeVec}

KeySeq ==
    [i \in 1..(Len(IdSeq) * Len(SideSeq)) |->
        [desertion_no |-> IdSeq[((i - 1) \div Len(SideSeq)) + 1],
         side |-> SideSeq[((i - 1) % Len(SideSeq)) + 1]]]

Absent == [size |-> 0, cos |-> 0, head |-> 0]

RECURSIVE RowsOf(_, _)
RowsOf(f, i) ==
    IF i > Len(KeySeq) THEN <<>>
    ELSE IF f[i] = Absent THEN RowsOf(f, i + 1)
         ELSE <<[desertion_no |-> KeySeq[i].desertion_no,
                 side |-> KeySeq[i].side,
                 vec |-> f[i]]>> \o RowsOf(f, i + 1)

\* Table contents: at most one row per (desertion_no, embedding_side), in scan order.
StoreSet ==
    {RowsOf(f, 1) :
        f \in {g \in [1..Len(KeySeq) -> VecSet \cup {Absent}] :
                  Cardinality({i \in 1..Len(KeySeq) : g[i] # Absent}) <= MaxRows}}

\* Query images: what detect_best_crop and the embedder return for each
\* (embedding sizes EMBED_DIM-1, EMBED_DIM, EMBED_DIM+1).
QueryImages ==
    {[detection |-> [bbox |-> <<0, 0, 4, 4>>, conf |-> 0, cls_id |-> -1],
      embedding |-> <<7>>],
     [detection |-> [bbox |-> <<0, 0, 4, 4>>, conf |-> 0, cls_id |-> -1],
      embedding |-> <<3, 4>>],
     [detection |-> [bbox |-> <<1, 1, 3, 4>>, conf |-> 9, cls_id |-> 16],
      embedding |-> <<6, 8, 5>>]}

\* SEARCH_GENDER / SEARCH_LOST_DATE / SEARCH_ANIMAL_TYPE environments.
SearchEnvs ==
    {[SEARCH_GENDER |-> "", SEARCH_LOST_DATE |-> "", SEARCH_ANIMAL_TYPE |-> ""],
     [SEARCH_GENDER |-> "", SEARCH_LOST_DATE |-> "", SEARCH_ANIMAL_TYPE |-> "dog"],
     [SEARCH_GENDER |-> "female", SEARCH_LOST_DATE |-> "", SEARCH_ANIMAL_TYPE |-> ""],
     [SEARCH_GENDER |-> "", SEARCH_LOST_DATE |-> "2024-01-02", SEARCH_ANIMAL_TYPE |-> ""],
     [SEARCH_GENDER |-> "male", SEARCH_LOST_DATE |-> "2024-01-01",
      SEARCH_ANIMAL_TYPE |-> "dog"]}

\* Files matching checkpoints/triplet_head_<EMBED_DIM>*.pt, in string order.
CkptNames == <<"checkpoints/triplet_head_20.pt", "checkpoints/triplet_head_2_run1.pt">>

\* Checkpoint files on disk: is there one at CKPT_PATH, and what glob.glob
\* returns for the pattern (in no particular order).
CkptDisks ==
    [at_path : BOOLEAN,
     matches : {<<>>, <<CkptNames[1]>>, <<CkptNames[2]>>,
                <<CkptNames[1], CkptNames[2]>>, <<CkptNames[2], CkptNames[1]>>}]


\* ------------------------------------------------------------------ state
VARIABLES
    prog,          \* which search program runs: "triplet" or "baseline"
    store,         \* rows of TRIPLET_TABLE, in scan order
    topk,          \* args.topk
    coarse_topk,   \* COARSE_TOPK
    pc,            \* position of main()
    head,          \* the TinyHead returned by load_head ("" = none)
    detection,     \* cropper.detect_best_crop(img)
    query_vec,     \* query embedding (after the dimension check)
    store_read,    \* load_embeddings has run
    dataset,       \* List[DbEmbedding] after load and filters
    shortlist,     \* coarse-stage candidates, in torch.topk order
    scores,        \* List[(sim, emb)]
    stdout,        \* JSON payloads printed
    err,           \* exception that ended main ("" = none)
    ckpt_seen,     \* load_head's view while it runs: the disk, and its ckpt_path
    search_env     \* the SEARCH_* environment main read its filters from

searchVars ==
    <<prog, store, topk, coarse_topk, pc, head, detection, query_vec,
      store_read, dataset, shortlist, scores, stdout, err, ckpt_seen, search_env>>

VARIABLES
    fetched,       \* fetch_embeddings(table, split): the grouped rows, in dict order
    train_ds,      \* the TripletDataset object
    g_pc,          \* position of __getitem__ ("new" before __init__)
    g_idx,         \* idx of the running / last __getitem__ call
    did,           \* anchor entity of that call
    neg_id,        \* neg_id of that call
    example        \* (anchor, positive_strong, weak_vec, negative) chosen so far

datasetVars == <<fetched, train_ds, g_pc, g_idx, did, neg_id, example>>

VARIABLES
    projector,     \* per process: the module-level Projector (cache, rng)
    projected,     \* the last project call: process, vec, target_dim, result
    pinned         \* an earlier project call whose result the caller kept

projVars == <<projector, projected, pinned>>

VARIABLES
    t_group,       \* train_group = fetch_embeddings(table, "train")
    v_group,       \* valid_group = fetch_embeddings(table, "valid")
    t_args,        \* the arguments of train()
    t_pc,          \* position of train()
    t_ds,          \* train_ds
    v_ds,          \* valid_ds
    epoch,         \* epochs completed
    step,          \* batches done in the running epoch
    weights,       \* model state: the optimizer steps applied to it
    epoch_log,     \* per completed epoch: the model state and val_loss at its end
    ckpt_file,     \* the file at ckpt_path
    t_saves,       \* torch.save calls made
    t_err          \* exception that ended train() ("" = none)

trainVars ==
    <<t_group, v_group, t_args, t_pc, t_ds, v_ds, epoch, step, weights, epoch_log,
      ckpt_file, t_saves, t_err>>

VARIABLES
    job,           \* the write job: "process", "prepare" or "augment"
    j_dims,        \* dims_to_run / DIMS
    j_run,         \* runs of the job started so far
    j_pc,          \* position of the job
    j_d,           \* index of the dimension being processed
    j_i,           \* index of the item being processed
    f_log,         \* fetch_image call of the item: per attempt, outcome and sleep
    to_save,       \* rows collected and not yet flushed
    db,            \* committed rows of the embedding tables
    processed,     \* the job's processed counter
    failures,      \* the job's failures counter
    j_err,         \* exception that ended the run ("" = none)
    last_flush,    \* what the database answered to the run's last flush
    j_projector,   \* the run's module-level projector
    j_hist         \* the run so far: items fetched, rows of the committed upserts

jobVars ==
    <<job, j_dims, j_run, j_pc, j_d, j_i, f_log, to_save, db, processed, failures,
      j_err, last_flush, j_projector, j_hist>>

VARIABLES
    d_boxes,       \* the detector's proposals for the image, in result order
    d_pc,          \* position of detect_best_crop
    d_result       \* the DetectionResult returned

detVars == <<d_boxes, d_pc, d_result>>

VARIABLES
    s_file,        \* whose sync_range runs: "save_code", "shelter" or "load_code"
    s_server,      \* the API for one (day, upkind): items held, totalCount reported
    s_rows,        \* rows_per_page
    s_pc,          \* position of the pagination loop
    s_page,        \* page
    s_got,         \* got (save_code.py only)
    s_saved,       \* day_saved
    s_requests     \* parity of the number of fetch_page calls made

syncVars == <<s_file, s_server, s_rows, s_pc, s_page, s_got, s_saved, s_requests>>

vars == <<searchVars, datasetVars, projVars, trainVars, jobVars, detVars, syncVars>>

nonSearchVars == <<datasetVars, projVars, trainVars, jobVars, detVars, syncVars>>
nonDatasetVars == <<searchVars, projVars, trainVars, jobVars, detVars, syncVars>>
nonProjVars == <<searchVars, datasetVars, trainVars, jobVars, detVars, syncVars>>
nonTrainVars == <<searchVars, datasetVars, projVars, jobVars, detVars, syncVars>>
nonJobVars == <<searchVars, datasetVars, projVars, trainVars, detVars, syncVars>>
nonDetVars == <<searchVars, datasetVars, projVars, trainVars, jobVars, syncVars>>
nonSyncVars == <<searchVars, datasetVars, projVars, trainVars, jobVars, detVars>>

NoDetection == [bbox |-> <<0, 0, 0, 0>>, conf |-> 0, cls_id |-> 0]
NoSeen == [at_path |-> FALSE, matches |-> <<"">>, ckpt_path |-> ""]
NoEnv == [SEARCH_GENDER |-> "-", SEARCH_LOST_DATE |-> "-", SEARCH_ANIMAL_TYPE |-> "-"]

\* ------------------------------------------------- triplet_similarity.py
\* Position of a file name in string order.
NameRank(name) == CHOOSE i \in 1..Len(CkptNames) : CkptNames[i] = name

FirstListed(matches) == matches[1]

\* sorted(matches)[0]
FirstSorted(matches) ==
    CHOOSE m \in Range(matches) : \A o \in Range(matches) : NameRank(m) <= NameRank(o)

\* resolve_ckpt_path: CKPT_PATH if it exists, else first sorted glob match, else raise.
ResolveCkptPath(disk) ==
    IF disk.at_path THEN [ok |-> TRUE, path |-> "CKPT_PATH"]
    ELSE IF disk.matches # <<>> THEN [ok |-> TRUE, path |-> FirstSorted(disk.matches)]
    ELSE [ok |-> FALSE, path |-> ""]

\* _mean_valid_vectors over the non-null slots of a row (one slot per row here):
\* the mean of the slots whose size is dim, or the empty array.
MeanValidVectors(v, dim) ==
    IF v.size = dim THEN v ELSE [size |-> 0, cos |-> 0, head |-> 0]

\* load_embeddings: rows whose averaged vector has EMBED_DIM components, joined
\* with abandoned_animals.
RECURSIVE LoadEmbeddings(_)
LoadEmbeddings(rows) ==
    IF rows = <<>> THEN <<>>
    ELSE LET row == Head(rows)
             vec == MeanValidVectors(row.vec, EMBED_DIM)
         IN  IF vec.size # EMBED_DIM THEN LoadEmbeddings(Tail(rows))
             ELSE <<[desertion_no |-> row.desertion_no,
                     side |-> row.side,
                     vec |-> vec,
                     up_kind_cd |-> Animals[row.desertion_no].up_kind_cd,
                     sex_cd |-> Animals[row.desertion_no].sex_cd,
                     notice_sdt |-> Animals[row.desertion_no].notice_sdt]>>
                  \o LoadEmbeddings(Tail(rows))

GenderFilter(raw) ==
    IF raw = "male" THEN "M" ELSE IF raw = "female" THEN "F" ELSE ""

AnimalCode(raw) ==
    IF raw = "dog" THEN "417000" ELSE IF raw = "cat" THEN "422400" ELSE ""

\* datetime.fromisoformat(s).date(): day number, or a raised exception.
FromIsoFormat(s) ==
    IF s = "2024-01-01" THEN [ok |-> TRUE, day |-> 1]
    ELSE IF s = "2024-01-02" THEN [ok |-> TRUE, day |-> 2]
    ELSE IF s = "2024-01-03" THEN [ok |-> TRUE, day |-> 3]
    ELSE [ok |-> FALSE, day |-> 0]

\* lost_date: None (ok = FALSE) unless SEARCH_LOST_DATE parses.
LostDate(raw) ==
    IF raw \in {"", "undefined", "null"} THEN [ok |-> FALSE, day |-> 0]
    ELSE FromIsoFormat(raw)

Upper(s) ==
    IF s = "m" THEN "M" ELSE IF s = "f" THEN "F" ELSE IF s = "q" THEN "Q" ELSE s

\* The filter loop without the notice-date test.
KeepsEmbNoDate(emb, animal_code, gender_filter, lost_date) ==
    /\ ~(animal_code # "" /\ emb.up_kind_cd # animal_code)
    /\ ~(gender_filter # "" /\ Upper(emb.sex_cd) # gender_filter)

\* The body of the filter loop: TRUE when emb is appended to filtered.
KeepsEmb(emb, animal_code, gender_filter, lost_date) ==
    /\ ~(animal_code # "" /\ emb.up_kind_cd # animal_code)
    /\ ~(gender_filter # "" /\ Upper(emb.sex_cd) # gender_filter)
    /\ (lost_date.ok =>
           /\ emb.notice_sdt # ""
           /\ FromIsoFormat(emb.notice_sdt).ok
           /\ ~(FromIsoFormat(emb.notice_sdt).day < lost_date.day))

RECURSIVE FilterEmbs(_, _, _, _)
FilterEmbs(ds, animal_code, gender_filter, lost_date) ==
    IF ds = <<>> THEN <<>>
    ELSE (IF KeepsEmb(Head(ds), animal_code, gender_filter, lost_date)
          THEN <<Head(ds)>> ELSE <<>>)
         \o FilterEmbs(Tail(ds), animal_code, gender_filter, lost_date)

ApplyFilters(ds, env) ==
    LET animal_code == AnimalCode(env.SEARCH_ANIMAL_TYPE)
        gender_filter == GenderFilter(env.SEARCH_GENDER)
        lost_date == LostDate(env.SEARCH_LOST_DATE)
    IN  IF animal_code # "" \/ gender_filter # "" \/ lost_date.ok
        THEN FilterEmbs(ds, animal_code, gender_filter, lost_date)
        ELSE ds

QueryBbox(det) ==
    [x1 |-> det.bbox[1], y1 |-> det.bbox[2], x2 |-> det.bbox[3], y2 |-> det.bbox[4],
     conf |-> det.conf]

ResultOf(entry) ==
    [desertion_no |-> entry.emb.desertion_no,
     side |-> entry.emb.side,
     similarity |-> entry.sim,
     up_kind_cd |-> entry.emb.up_kind_cd,
     sex_cd |-> entry.emb.sex_cd,
     notice_sdt |-> entry.emb.notice_sdt]

Payload(det, entries) ==
    [query_bbox |-> QueryBbox(det),
     results |-> [i \in 1..Len(entries) |-> ResultOf(entries[i])]]

TopNPoolOnly(n, k, pool) == Min(n, pool)

\* topn = min(len(dataset), max(args.topk, COARSE_TOPK))
TopN(n, k, pool) == Min(n, Max(k, pool))

\* torch.topk(values, k): the index tuples it may return -- k distinct indices,
\* values non-increasing along the tuple, no left-out value above a returned one;
\* the order among equal values is unspecified.
TopkChoices(vals, k) ==
    {idx \in [1..k -> 1..Len(vals)] :
        /\ \A i, j \in 1..k : i # j => idx[i] # idx[j]
        /\ \A i \in 1..k : i < k => vals[idx[i]] >= vals[idx[i + 1]]
        /\ \A i \in 1..k : \A m \in 1..Len(vals) :
              (\A j \in 1..k : idx[j] # m) => vals[m] <= vals[idx[i]]}

\* Stage 2: one (sim, emb) per shortlisted entry, sim from the head space.
Rerank(sl) == [i \in 1..Len(sl) |-> [sim |-> sl[i].vec.head, emb |-> sl[i]]]

\* best_per_id as an insertion-ordered dict: position of a key, 0 if absent.
PosOfId(best, d) ==
    IF \E i \in 1..Len(best) : best[i].emb.desertion_no = d
    THEN CHOOSE i \in 1..Len(best) : best[i].emb.desertion_no = d
    ELSE 0

DedupStepNoCheck(best, entry) == Append(best, entry)

DedupStepKeepLowest(best, entry) ==
    LET p == PosOfId(best, entry.emb.desertion_no)
    IN  IF p = 0 THEN Append(best, entry)
        ELSE IF entry.sim < best[p].sim THEN [best EXCEPT ![p] = entry]
        ELSE best

\* One iteration of the dedup loop.
DedupStep(best, entry) ==
    LET p == PosOfId(best, entry.emb.desertion_no)
    IN  IF p = 0 THEN Append(best, entry)
        ELSE IF entry.sim > best[p].sim THEN [best EXCEPT ![p] = entry]
        ELSE best

RECURSIVE BestPerId(_, _)
BestPerId(best, sc) ==
    IF sc = <<>> THEN best
    ELSE BestPerId(DedupStep(best, Head(sc)), Tail(sc))

\* Lines 326-334: sort, deduplicate per desertion_no, sort again, cut to topk.
SelectTopk(sc, k) ==
    LET sorted == SortDescBySim(sc)
        deduped == SortDescBySim(BestPerId(<<>>, sorted))
    IN  PySlicePrefix(deduped, k)


\* main, lines 214-220: open the image, build cropper and embedder, load the head.
T_LoadHead ==
    /\ prog = "triplet" /\ pc = "start"
    /\ \E disk \in CkptDisks :
          LET r == ResolveCkptPath(disk)
          IN  /\ ckpt_seen' = [at_path |-> disk.at_path, matches |-> disk.matches,
                                ckpt_path |-> r.path]
              /\ IF r.ok
                 THEN /\ head' = "TinyHead"
                      /\ pc' = "embed"
                      /\ err' = err
                 ELSE /\ head' = head
                      /\ pc' = "failed"
                      /\ err' = "FileNotFoundError"
    /\ UNCHANGED nonSearchVars
    /\ UNCHANGED <<search_env, prog, store, topk, coarse_topk, detection, query_vec,
                   store_read, dataset, shortlist, scores, stdout>>

\* main, lines 222-232 (baseline 161-171): detect, embed, check the query dimension.
\* Lines 225-232: a longer query is cut to EMBED_DIM, a shorter one raises.
CheckQueryDimPad(qv) ==
    IF Len(qv) > EMBED_DIM THEN [ok |-> TRUE, vec |-> SubSeq(qv, 1, EMBED_DIM)]
    ELSE [ok |-> TRUE, vec |-> qv \o [i \in 1..(EMBED_DIM - Len(qv)) |-> 0]]

CheckQueryDim(qv) ==
    IF Len(qv) # EMBED_DIM
    THEN IF Len(qv) > EMBED_DIM
         THEN [ok |-> TRUE, vec |-> SubSeq(qv, 1, EMBED_DIM)]
         ELSE [ok |-> FALSE, vec |-> qv]
    ELSE [ok |-> TRUE, vec |-> qv]

EmbedQuery(next) ==
    \E img \in QueryImages :
        LET r == CheckQueryDim(img.embedding)
        IN  /\ detection' = img.detection
            /\ query_vec' = r.vec
            /\ IF r.ok
               THEN /\ pc' = next
                    /\ err' = err
               ELSE /\ pc' = "failed"
                    /\ err' = "RuntimeError: query dim"

T_Embed ==
    /\ prog = "triplet" /\ pc = "embed"
    /\ EmbedQuery("load")
    /\ ckpt_seen' = NoSeen
    /\ UNCHANGED nonSearchVars
    /\ UNCHANGED <<search_env, prog, store, topk, coarse_topk, head, store_read,
                   dataset, shortlist, scores, stdout>>

\* main, lines 234-296: read the filters, load the table, filter, empty-result exit.
T_Load ==
    /\ prog = "triplet" /\ pc = "load"
    /\ \E env \in SearchEnvs :
          LET ds == ApplyFilters(LoadEmbeddings(store), env)
          IN  /\ dataset' = ds
              /\ search_env' = env
              /\ store_read' = TRUE
              /\ IF ds = <<>>
                 THEN /\ stdout' = Append(stdout, Payload(detection, <<>>))
                      /\ pc' = "done"
                 ELSE /\ stdout' = stdout
                      /\ pc' = "coarse"
    /\ UNCHANGED nonSearchVars
    /\ UNCHANGED <<ckpt_seen, prog, store, topk, coarse_topk, head, detection, query_vec,
                   shortlist, scores, err>>

\* main, lines 298-311: coarse cosine scores, torch.topk, shortlist.
T_Coarse ==
    /\ prog = "triplet" /\ pc = "coarse"
    /\ LET coarse_scores == [i \in 1..Len(dataset) |-> dataset[i].vec.cos]
           topn == TopN(Len(dataset), topk, coarse_topk)
       IN  \E topn_idx \in TopkChoices(coarse_scores, topn) :
              shortlist' = [i \in 1..topn |-> dataset[topn_idx[i]]]
    /\ pc' = "rerank"
    /\ UNCHANGED nonSearchVars
    /\ UNCHANGED <<ckpt_seen, search_env, prog, store, topk, coarse_topk, head, detection, query_vec,
                   store_read, dataset, scores, stdout, err>>

\* main, lines 313-324: transform the shortlist through the head, score it.
T_Rerank ==
    /\ prog = "triplet" /\ pc = "rerank"
    /\ scores' = Rerank(shortlist)
    /\ pc' = "select"
    /\ UNCHANGED nonSearchVars
    /\ UNCHANGED <<ckpt_seen, search_env, prog, store, topk, coarse_topk, head, detection, query_vec,
                   store_read, dataset, shortlist, stdout, err>>

\* main, lines 326-364: sort, deduplicate, cut to topk, print.
T_Select ==
    /\ prog = "triplet" /\ pc = "select"
    /\ stdout' = Append(stdout, Payload(detection, SelectTopk(scores, topk)))
    /\ pc' = "done"
    /\ UNCHANGED nonSearchVars
    /\ UNCHANGED <<ckpt_seen, search_env, prog, store, topk, coarse_topk, head, detection, query_vec,
                   store_read, dataset, shortlist, scores, err>>

\* ---------------------------------------- triplet_similarity_baseline.py
B_Embed ==
    /\ prog = "baseline" /\ pc = "start"
    /\ EmbedQuery("load")
    /\ UNCHANGED nonSearchVars
    /\ UNCHANGED <<ckpt_seen, search_env, prog, store, topk, coarse_topk, head, store_read, dataset,
                   shortlist, scores, stdout>>

\* main, lines 173-177: load the table; an empty table raises.
B_Load ==
    /\ prog = "baseline" /\ pc = "load"
    /\ dataset' = LoadEmbeddings(store)
    /\ store_read' = TRUE
    /\ IF LoadEmbeddings(store) = <<>>
       THEN /\ pc' = "failed"
            /\ err' = "RuntimeError: No embeddings found"
       ELSE /\ pc' = "score"
            /\ err' = err
    /\ UNCHANGED nonSearchVars
    /\ UNCHANGED <<ckpt_seen, search_env, prog, store, topk, coarse_topk, head, detection, query_vec,
                   shortlist, scores, stdout>>

\* The baseline's filter: animal type and gender only.
BaselineFilter(ds, env) ==
    LET animal_code == AnimalCode(env.SEARCH_ANIMAL_TYPE)
        gender_filter == GenderFilter(env.SEARCH_GENDER)
    IN  IF animal_code # "" \/ gender_filter # ""
        THEN FilterEmbs(ds, animal_code, gender_filter, [ok |-> FALSE, day |-> 0])
        ELSE ds

\* Lines 197-217: cosine of every kept entry, sorted descending.
BaselineScores(ds) ==
    SortDescBySim([i \in 1..Len(ds) |-> [sim |-> ds[i].vec.cos, emb |-> ds[i]]])

\* main, lines 179-259: filter, score, sort, cut to topk, print.
B_Score ==
    /\ prog = "baseline" /\ pc = "score"
    /\ \E env \in SearchEnvs :
          LET sc == BaselineScores(BaselineFilter(dataset, env))
          IN  /\ scores' = sc
              /\ stdout' = Append(stdout,
                     IF sc = <<>> THEN Payload(detection, <<>>)
                     ELSE Payload(detection, PySlicePrefix(sc, topk)))
    /\ pc' = "done"
    /\ UNCHANGED nonSearchVars
    /\ UNCHANGED <<ckpt_seen, search_env, prog, store, topk, coarse_topk, head, detection, query_vec,
                   store_read, dataset, shortlist, err>>

SearchNext ==
    \/ T_LoadHead
    \/ T_Embed
    \/ T_Load
    \/ T_Coarse
    \/ T_Rerank
    \/ T_Select
    \/ B_Embed
    \/ B_Load
    \/ B_Score

\* ------------------------------------------------------- train_triplet.py
MaxVecs == 2          \* vectors fetched per entity
MaxMult == 2          \* largest length_mult drawn

EntSeq == <<"e1", "e2", "e3">>
MetaKeys == {[kind |-> "k1", color |-> "c1"], [kind |-> "k1", color |-> "c2"]}

NoGroup == [n |-> 0, key |-> [kind |-> "", color |-> ""]]

RECURSIVE GroupsOf(_, _)
GroupsOf(f, i) ==
    IF i > Len(EntSeq) THEN <<>>
    ELSE IF f[i] = NoGroup THEN GroupsOf(f, i + 1)
         ELSE <<[id |-> EntSeq[i], n |-> f[i].n, kind |-> f[i].key.kind,
                 color |-> f[i].key.color]>> \o GroupsOf(f, i + 1)

\* fetch_embeddings results: per desertion_no the number of vectors collected
\* (vector slot s of entity d is the pair [id |-> d, slot |-> s]) and kind/color.
FetchedSet ==
    {GroupsOf(f, 1) :
        f \in [1..Len(EntSeq) -> [n : 1..MaxVecs, key : MetaKeys] \cup {NoGroup}]}

NoVec == [id |-> "", slot |-> 0]
NoExample ==
    [anchor |-> NoVec, positive_strong |-> NoVec, weak_vec |-> NoVec, negative |-> NoVec]
NoDataset ==
    [grouped |-> <<>>, ids |-> <<>>, neg_ids |-> <<>>, length_mult |-> 0,
     by_meta |-> [k \in MetaKeys |-> <<>>]]

\* Line 69: keep only ids with at least 2 vectors.
RECURSIVE EligibleGroups(_)
EligibleGroups(gs) ==
    IF gs = <<>> THEN <<>>
    ELSE (IF Head(gs).n >= 2 THEN <<Head(gs)>> ELSE <<>>) \o EligibleGroups(Tail(gs))

\* Lines 74-77: ids of self.grouped per (kind, color), in dict order.
RECURSIVE IdsWithKey(_, _)
IdsWithKey(gs, k) ==
    IF gs = <<>> THEN <<>>
    ELSE (IF [kind |-> Head(gs).kind, color |-> Head(gs).color] = k
          THEN <<Head(gs).id>> ELSE <<>>) \o IdsWithKey(Tail(gs), k)

\* TripletDataset.__init__
NewTripletDataset(grouped, length_mult) ==
    LET kept == EligibleGroups(grouped)
        ids == [i \in 1..Len(kept) |-> kept[i].id]
    IN  [grouped |-> kept,
         ids |-> ids,
         neg_ids |-> ids,
         length_mult |-> Max(1, length_mult),
         by_meta |-> [k \in MetaKeys |-> IdsWithKey(kept, k)]]

\* TripletDataset.__len__
DsLen(d) == Len(d.ids) * d.length_mult

\* self.grouped[x]
GroupOf(d, x) == d.grouped[CHOOSE i \in 1..Len(d.grouped) : d.grouped[i].id = x]

SamplePairsWithReplacement(n) == (1..n) \X (1..n)

\* random.sample(info["vecs"], 2): two different positions, in either order.
SamplePairs(n) == {pr \in (1..n) \X (1..n) : pr[1] # pr[2]}

\* Line 89: weak_ids = [x for x in self.by_meta.get(key, []) if x != did]
WeakIds(d, x) ==
    LET info == GroupOf(d, x)
    IN  Range(d.by_meta[[kind |-> info.kind, color |-> info.color]]) \ {x}

\* Lines 90-94: the weak positive, given the strong positive.
WeakChoices(d, x, strong) ==
    IF WeakIds(d, x) # {}
    THEN UNION {{[id |-> w, slot |-> sl] : sl \in 1..GroupOf(d, w).n} : w \in WeakIds(d, x)}
    ELSE {strong}

\* Line 97: the resampling loop is left when neg_id differs from did.
NegLoopExits(neg, x) == neg # x

D_New ==
    /\ g_pc = "new"
    /\ \E length_mult \in 0..MaxMult : train_ds' = NewTripletDataset(fetched, length_mult)
    /\ g_pc' = "idle"
    /\ UNCHANGED <<fetched, g_idx, did, neg_id, example>>
    /\ UNCHANGED nonDatasetVars

\* __getitem__, lines 83-96: anchor, strong and weak positives, first neg_id draw.
G_Begin ==
    /\ g_pc = "idle"
    /\ \E idx \in 0..(DsLen(train_ds) - 1) :
          LET x == train_ds.ids[(idx % Len(train_ds.ids)) + 1]
              info == GroupOf(train_ds, x)
          IN  /\ g_idx' = idx
              /\ did' = x
              /\ \E pr \in SamplePairs(info.n) :
                    \E weak \in WeakChoices(train_ds, x, [id |-> x, slot |-> pr[2]]) :
                        example' = [anchor |-> [id |-> x, slot |-> pr[1]],
                                    positive_strong |-> [id |-> x, slot |-> pr[2]],
                                    weak_vec |-> weak,
                                    negative |-> NoVec]
    /\ neg_id' \in Range(train_ds.neg_ids)
    /\ g_pc' = "negloop"
    /\ UNCHANGED <<fetched, train_ds>>
    /\ UNCHANGED nonDatasetVars

\* __getitem__, lines 97-98: one more draw while neg_id == did.
G_Resample ==
    /\ g_pc = "negloop"
    /\ ~NegLoopExits(neg_id, did)
    /\ neg_id' \in Range(train_ds.neg_ids)
    /\ UNCHANGED <<fetched, train_ds, g_pc, g_idx, did, example>>
    /\ UNCHANGED nonDatasetVars

\* __getitem__, lines 99-105: draw the negative vector and return the example.
G_Return ==
    /\ g_pc = "negloop"
    /\ NegLoopExits(neg_id, did)
    /\ \E sl \in 1..GroupOf(train_ds, neg_id).n :
          example' = [example EXCEPT !.negative = [id |-> neg_id, slot |-> sl]]
    /\ g_pc' = "returned"
    /\ UNCHANGED <<fetched, train_ds, g_idx, did, neg_id>>
    /\ UNCHANGED nonDatasetVars

\* The DataLoader takes the returned example; the next call starts afresh.
G_Collect ==
    /\ g_pc = "returned"
    /\ g_pc' = "idle"
    /\ g_idx' = 0
    /\ did' = ""
    /\ neg_id' = ""
    /\ example' = NoExample
    /\ UNCHANGED <<fetched, train_ds>>
    /\ UNCHANGED nonDatasetVars

DatasetNext ==
    \/ D_New
    \/ G_Begin
    \/ G_Resample
    \/ G_Return
    \/ G_Collect

\* ------------------------------------------- prepare_triplet_data.py
SEED == 42            \* np.random.default_rng(42)
Scale == 100          \* fixed-point unit: the float 1.0

\* Processes, each with its own module-level projector = Projector().
Procs == {1, 2}
\* Embedder outputs (unit vectors, fixed point) and target dimensions.
InVecs == {<<0, 100, 0>>, <<60, 0, 80>>, <<36, 48, 80>>}
TargetDims == {1, 2, 3}

RECURSIVE SumSeq(_)
SumSeq(s) == IF s = <<>> THEN 0 ELSE Head(s) + SumSeq(Tail(s))

Abs(a) == IF a < 0 THEN -a ELSE a

\* a / b rounded to the nearest integer, b > 0.
DivRound(a, b) ==
    IF a >= 0 THEN (2 * a + b) \div (2 * b) ELSE -((2 * (-a) + b) \div (2 * b))

RECURSIVE ISqrtBetween(_, _, _)
ISqrtBetween(n, lo, hi) ==
    IF lo >= hi THEN lo
    ELSE LET mid == (lo + hi + 1) \div 2
         IN  IF mid * mid <= n THEN ISqrtBetween(n, mid, hi)
             ELSE ISqrtBetween(n, lo, mid - 1)

\* floor(sqrt(n)), for n below 2^31
ISqrt(n) == ISqrtBetween(n, 0, IF n < 46340 THEN n ELSE 46340)

\* The bit generator behind default_rng(seed): a full-period congruential
\* generator on 6 bits; every draw advances the state by one step.
RngSeed(seed) == seed % 64
RngStep(st) == (5 * st + 3) % 64
\* The standard-normal variate read off a generator state, in whole units.
RngSample(st) == ((st \div 4) % 5) - 2

RECURSIVE RngAfter(_, _)
RngAfter(st, k) == IF k = 0 THEN st ELSE RngAfter(RngStep(st), k - 1)

\* rng.standard_normal((target_dim, base_dim)): target_dim * base_dim draws, row by row.
StandardNormal(st, target_dim, base_dim) ==
    [i \in 1..target_dim |->
        [j \in 1..base_dim |-> RngSample(RngAfter(st, (i - 1) * base_dim + j))]]

\* np.linalg.norm of a fixed-point vector.
Norm(v) == ISqrt(SumSeq([i \in 1..Len(v) |-> v[i] * v[i]]))

\* mat /= np.linalg.norm(mat, axis=1, keepdims=True) + 1e-8 (an all-zero row stays zero).
NormalizeRows(mat) ==
    [i \in 1..Len(mat) |->
        LET norm == Norm([j \in 1..Len(mat[i]) |-> mat[i][j] * Scale])
        IN  [j \in 1..Len(mat[i]) |->
                IF norm = 0 THEN 0 ELSE DivRound(mat[i][j] * Scale * Scale, norm)]]

\* mat @ vec
MatVec(mat, vec) ==
    [i \in 1..Len(mat) |->
        DivRound(SumSeq([j \in 1..Len(vec) |-> mat[i][j] * vec[j]]), Scale)]

\* Lines 253-256: the matrix built for a key from the generator's current state.
BuildMatrix(st, target_dim, base_dim) ==
    NormalizeRows(StandardNormal(st, target_dim, base_dim))

\* project without the cache lookup: a matrix is drawn on every call.
ProjectNoCache(pj, vec, target_dim) ==
    LET base_dim == Len(vec)
        key == <<base_dim, target_dim>>
    IN  IF base_dim = target_dim THEN [out |-> vec, projector |-> pj]
        ELSE LET mat == BuildMatrix(pj.rng, target_dim, base_dim)
                 pj1 == [cache |-> [k \in (DOMAIN pj.cache) \cup {key} |->
                                       IF k = key THEN mat ELSE pj.cache[k]],
                         rng |-> RngAfter(pj.rng, target_dim * base_dim)]
                 out == MatVec(mat, vec)
                 norm == Norm(out)
             IN  [out |-> IF norm > 0
                          THEN [i \in 1..Len(out) |-> DivRound(out[i] * Scale, norm)]
                          ELSE out,
                  projector |-> pj1]

\* project without the equal-dimension shortcut: a square matrix is built too.
ProjectNoShortcut(pj, vec, target_dim) ==
    LET base_dim == Len(vec)
        key == <<base_dim, target_dim>>
        pj1 == IF key \notin DOMAIN pj.cache
               THEN [cache |-> pj.cache @@
                         (key :> BuildMatrix(pj.rng, target_dim, base_dim)),
                     rng |-> RngAfter(pj.rng, target_dim * base_dim)]
               ELSE pj
        out == MatVec(pj1.cache[key], vec)
        norm == Norm(out)
    IN  [out |-> IF norm > 0
                 THEN [i \in 1..Len(out) |-> DivRound(out[i] * Scale, norm)]
                 ELSE out,
         projector |-> pj1]

\* Projector.project: the result and the projector afterwards.
Project(pj, vec, target_dim) ==
    LET base_dim == Len(vec)
        key == <<base_dim, target_dim>>
    IN  IF base_dim = target_dim THEN [out |-> vec, projector |-> pj]
        ELSE LET pj1 == IF key \notin DOMAIN pj.cache
                        THEN [cache |-> pj.cache @@
                                  (key :> BuildMatrix(pj.rng, target_dim, base_dim)),
                              rng |-> RngAfter(pj.rng, target_dim * base_dim)]
                        ELSE pj
                 out == MatVec(pj1.cache[key], vec)
                 norm == Norm(out)
             IN  [out |-> IF norm > 0
                          THEN [i \in 1..Len(out) |-> DivRound(out[i] * Scale, norm)]
                          ELSE out,
                  projector |-> pj1]

NoProjected == [proc |-> 0, vec |-> <<>>, target_dim |-> 0, out |-> <<>>]
NoPinned == [proc |-> 0, vec |-> <<>>, target_dim |-> 0, out |-> <<>>, rng |-> 0]

\* One projector.project(v, dim) call of process p (process_dimension, line 352).
P_Project(p) ==
    /\ \E vec \in InVecs, target_dim \in TargetDims :
          LET r == Project(projector[p], vec, target_dim)
          IN  /\ projector' = [projector EXCEPT ![p] = r.projector]
              /\ projected' = [proc |-> p, vec |-> vec, target_dim |-> target_dim,
                               out |-> r.out]
              \* rows.append(...): the caller may keep this result (the first kept
              \* one is remembered, with the generator state right after the call)
              /\ pinned' \in
                    IF pinned = NoPinned
                    THEN {pinned, [proc |-> p, vec |-> vec, target_dim |-> target_dim,
                                   out |-> r.out, rng |-> r.projector.rng]}
                    ELSE {pinned}
    /\ UNCHANGED nonProjVars

\* Projector.__init__: an empty cache and default_rng(SEED).
NewProjector == [cache |-> <<>>, rng |-> RngSeed(SEED)]

ProjNext == \E p \in Procs : P_Project(p)

\* ------------------------------------------------ train_triplet.py: train
MaxEpochs == 2        \* largest epochs argument drawn
BATCH == 2            \* TRIPLET_BATCH, scaled down from 64

Losses == 1..2
NoFile == [state_dict |-> -1, embed_dim |-> 0, table |-> "", epochs |-> 0, margin |-> ""]
\* A checkpoint left at ckpt_path by an earlier run.
OldCkpt ==
    [state_dict |-> -2, embed_dim |-> EMBED_DIM, table |-> "animal_embeddings_2",
     epochs |-> 60, margin |-> "0.2"]
NoArgs ==
    [table |-> "", embed_dim |-> 0, batch_size |-> 0, margin |-> "", epochs |-> 0,
     length_mult |-> 0]
TrainArgs ==
    [table : {"animal_embeddings_2"}, embed_dim : {EMBED_DIM}, batch_size : {BATCH},
     margin : {"0.2"}, epochs : 0..MaxEpochs, length_mult : {1, MaxMult}]

\* fetch_embeddings(table, "valid"): nothing, an entity with one vector, one
\* entity with two vectors, two entities with two vectors.
ValidGroups ==
    {<<>>,
     <<[id |-> "e1", n |-> 1, kind |-> "k1", color |-> "c1"]>>,
     <<[id |-> "e1", n |-> 2, kind |-> "k1", color |-> "c1"]>>,
     <<[id |-> "e1", n |-> 2, kind |-> "k1", color |-> "c1"],
       [id |-> "e2", n |-> 2, kind |-> "k1", color |-> "c2"]>>}

RandomSamplerAcceptsEmpty(num_samples) == TRUE

\* DataLoader(train_ds, shuffle=True): the RandomSampler it builds raises
\* ValueError unless the dataset has a positive length.
RandomSamplerOk(num_samples) == num_samples > 0

\* len(DataLoader(ds, batch_size, drop_last=False))
DataLoaderLen(d, batch_size) == (DsLen(d) + batch_size - 1) \div batch_size

\* __getitem__ returns only if some neg_id differs from did (line 97).
CanDrawExamples(d) == Cardinality(Range(d.neg_ids)) >= 2

StateDictOfBestEpoch(w, log) ==
    IF log = <<>> THEN w
    ELSE log[CHOOSE i \in 1..Len(log) :
                 \A j \in 1..Len(log) : log[i].val_loss <= log[j].val_loss].weights

\* Line 231: model.state_dict() at the time of torch.save.
StateDictSaved(w, log) == w

\* train, lines 122-182: fetch both splits, build datasets and loaders.
Tr_Start ==
    /\ t_pc = "start"
    /\ IF t_group = <<>>
       THEN /\ t_pc' = "failed"
            /\ t_err' = "RuntimeError: No train embeddings found"
            /\ UNCHANGED <<t_ds, v_ds>>
       ELSE /\ t_ds' = NewTripletDataset(t_group, t_args.length_mult)
            /\ v_ds' = IF v_group # <<>> THEN NewTripletDataset(v_group, 1) ELSE NoDataset
            /\ IF RandomSamplerOk(DsLen(NewTripletDataset(t_group, t_args.length_mult)))
               THEN t_pc' = "epoch" /\ t_err' = t_err
               ELSE t_pc' = "failed" /\ t_err' = "ValueError: num_samples"
    /\ UNCHANGED <<t_group, v_group, t_args, epoch, step, weights, epoch_log,
                   ckpt_file, t_saves>>
    /\ UNCHANGED nonTrainVars

\* train, lines 188-207: one batch of the running epoch, one optimizer step.
Tr_Batch ==
    /\ t_pc = "epoch" /\ epoch < t_args.epochs
    /\ step < DataLoaderLen(t_ds, t_args.batch_size)
    /\ CanDrawExamples(t_ds)
    /\ step' = step + 1
    /\ weights' = weights + 1
    /\ UNCHANGED <<t_group, v_group, t_args, t_pc, t_ds, v_ds, epoch, epoch_log,
                   ckpt_file, t_saves, t_err>>
    /\ UNCHANGED nonTrainVars

\* A batch is requested from a dataset whose only entity is the anchor: the
\* loop of line 97 never exits.
Tr_Hang ==
    /\ t_pc = "epoch" /\ epoch < t_args.epochs
    /\ \/ /\ step < DataLoaderLen(t_ds, t_args.batch_size)
          /\ ~CanDrawExamples(t_ds)
       \/ /\ step = DataLoaderLen(t_ds, t_args.batch_size)
          /\ DsLen(v_ds) > 0
          /\ ~CanDrawExamples(v_ds)
    /\ t_pc' = "hung"
    /\ UNCHANGED <<t_group, v_group, t_args, t_ds, v_ds, epoch, step, weights,
                   epoch_log, ckpt_file, t_saves, t_err>>
    /\ UNCHANGED nonTrainVars

\* train, lines 208-224: the validation pass that ends an epoch.
Tr_EpochEnd ==
    /\ t_pc = "epoch" /\ epoch < t_args.epochs
    /\ step = DataLoaderLen(t_ds, t_args.batch_size)
    /\ DsLen(v_ds) > 0 => CanDrawExamples(v_ds)
    /\ \E val_loss \in (IF DsLen(v_ds) > 0 THEN Losses ELSE {0}) :
          epoch_log' = Append(epoch_log, [weights |-> weights, val_loss |-> val_loss])
    /\ epoch' = epoch + 1
    /\ step' = 0
    /\ UNCHANGED <<t_group, v_group, t_args, t_pc, t_ds, v_ds, weights, ckpt_file,
                   t_saves, t_err>>
    /\ UNCHANGED nonTrainVars

\* train, lines 226-239: the checkpoint written after the epoch loop.
Tr_Save ==
    /\ t_pc = "epoch" /\ epoch >= t_args.epochs
    /\ ckpt_file' = [state_dict |-> StateDictSaved(weights, epoch_log),
                     embed_dim |-> t_args.embed_dim,
                     table |-> t_args.table,
                     epochs |-> t_args.epochs,
                     margin |-> t_args.margin]
    /\ t_saves' = t_saves + 1
    /\ t_pc' = "done"
    /\ UNCHANGED <<t_group, v_group, t_args, t_ds, v_ds, epoch, step, weights,
                   epoch_log, t_err>>
    /\ UNCHANGED nonTrainVars

\* An exception raised inside the epoch loop (device error, interrupt) ends train().
Tr_Abort ==
    /\ t_pc = "epoch" /\ epoch < t_args.epochs
    /\ t_pc' = "failed"
    /\ t_err' = "aborted"
    /\ UNCHANGED <<t_group, v_group, t_args, t_ds, v_ds, epoch, step, weights,
                   epoch_log, ckpt_file, t_saves>>
    /\ UNCHANGED nonTrainVars

TrainNext ==
    \/ Tr_Start
    \/ Tr_Batch
    \/ Tr_Hang
    \/ Tr_EpochEnd
    \/ Tr_Save
    \/ Tr_Abort

\* ------------------------------------------------------- the write jobs
\* advanced_embedding_pipeline.process ("process"), prepare_triplet_data.main
\* ("prepare") and augment_popfile2.main ("augment").
MaxRuns == 2          \* runs of a job over the same animals
MAX_RETRIES == 2
BATCH_SIZE == 2       \* scaled down from 8 / 64
PgQuantum == 10       \* vec_to_pg keeps 6 decimals; here one decimal of Scale 100

\* abandoned_animals rows with an image url, in the order the job reads them.
JobAnimals ==
    <<[desertion_no |-> "A", popfile1 |-> "u1", popfile2 |-> "u2", split |-> "train"],
      [desertion_no |-> "B", popfile1 |-> "", popfile2 |-> "u3", split |-> "valid"]>>

NoneVec == <<>>

\* The deterministic embedder on the crop of an image and on its mirror image.
BaseVec(url, mirrored) ==
    IF url = "u1" THEN (IF mirrored THEN <<60, 0, 80>> ELSE <<0, 100, 0>>)
    ELSE IF url = "u2" THEN (IF mirrored THEN <<0, 100, 0>> ELSE <<36, 48, 80>>)
    ELSE (IF mirrored THEN <<36, 48, 80>> ELSE <<60, 0, 80>>)

RECURSIVE SidesOf(_, _)
SidesOf(animals, sides) ==
    IF animals = <<>> THEN <<>>
    ELSE LET a == Head(animals)
             one(side, url) ==
                 IF url # "" /\ side \in sides
                 THEN <<[desertion_no |-> a.desertion_no, side |-> side, url |-> url,
                         split |-> a.split]>>
                 ELSE <<>>
         IN  one("popfile1", a.popfile1) \o one("popfile2", a.popfile2)
             \o SidesOf(Tail(animals), sides)

\* fetch_targets / the two loops of process_dimension / fetch_animals.
Items(jb) ==
    IF jb = "augment" THEN SidesOf(JobAnimals, {"popfile2"})
    ELSE SidesOf(JobAnimals, {"popfile1", "popfile2"})

\* DIM_LIST / AUG_DIMS; the embedder's vectors have 3 components.
DimLists(jb) ==
    IF jb = "process" THEN {<<3>>}
    ELSE IF jb = "prepare" THEN {<<3>>, <<2, 1>>}
    ELSE {<<3>>, <<2, 4>>}

\* time.sleep after a failed attempt, in half seconds (0 = no sleep).
FetchSleep(jb, outcome, attempt) ==
    IF outcome = "exception" THEN attempt + 1
    ELSE IF outcome = "status" /\ jb = "augment" THEN attempt + 1
    ELSE 0

\* fetch_image has returned: with the image, or None after the last attempt.
FetchReturned(log) ==
    log # <<>> /\ (log[Len(log)].outcome = "ok" \/ Len(log) = MAX_RETRIES + 1)
FetchedImage(log) == log # <<>> /\ log[Len(log)].outcome = "ok"

\* vec_to_pg: every component printed with a fixed number of decimals.
VecToPg(vec) == [i \in 1..Len(vec) |-> DivRound(vec[i], PgQuantum) * PgQuantum]

\* augment_popfile2.project_vec
ProjectVec(vec, dim) ==
    IF Len(vec) < dim THEN NoneVec
    ELSE IF Len(vec) = dim THEN vec
    ELSE SubSeq(vec, 1, dim)

\* [projector.project(v, dim) for v in vecs_1024], with the projector afterwards.
RECURSIVE ProjectAll(_, _, _)
ProjectAll(pj, vecs, dim) ==
    IF vecs = <<>> THEN [outs |-> <<>>, projector |-> pj]
    ELSE LET r == Project(pj, Head(vecs), dim)
             rest == ProjectAll(r.projector, Tail(vecs), dim)
         IN  [outs |-> <<r.out>> \o rest.outs, projector |-> rest.projector]

Pad4(vs) == vs \o [i \in 1..(4 - Len(vs)) |-> NoneVec]

\* The row a job builds for a fetched item: ok = FALSE when the item is skipped.
RowFor(jb, item, dim, pj) ==
    LET orig == BaseVec(item.url, FALSE)
        flip == BaseVec(item.url, TRUE)
    IN  IF jb = "process"
        THEN [ok |-> TRUE, projector |-> pj,
              row |-> [table |-> Len(orig), desertion_no |-> item.desertion_no,
                       side |-> item.side, split |-> "", vecs |-> Pad4(<<orig>>)]]
        ELSE IF jb = "prepare"
        THEN LET r == ProjectAll(pj, IF item.side = "popfile2" THEN <<orig>>
                                     ELSE <<orig, flip>>, dim)
             IN  [ok |-> TRUE, projector |-> r.projector,
                  row |-> [table |-> dim, desertion_no |-> item.desertion_no,
                           side |-> item.side, split |-> item.split,
                           vecs |-> Pad4([i \in 1..Len(r.outs) |-> VecToPg(r.outs[i])])]]
        ELSE [ok |-> ProjectVec(orig, dim) # NoneVec /\ ProjectVec(flip, dim) # NoneVec,
              projector |-> pj,
              row |-> [table |-> dim, desertion_no |-> item.desertion_no,
                       side |-> "popfile2", split |-> item.split,
                       vecs |-> Pad4(<<ProjectVec(orig, dim), ProjectVec(flip, dim)>>)]]

\* ON CONFLICT (...): the columns of the conflict target.
ConflictKey(jb, row) ==
    IF jb = "augment" THEN <<row.table, row.desertion_no>>
    ELSE <<row.table, row.desertion_no, row.side>>

\* INSERT ... ON CONFLICT ... DO UPDATE of one row.
UpsertRow(jb, d, row) ==
    {r \in d : ConflictKey(jb, r) # ConflictKey(jb, row)} \cup {row}

\* execute_values + conn.commit() of a batch.
RECURSIVE Upsert(_, _, _)
Upsert(jb, d, rows) ==
    IF rows = <<>> THEN d ELSE Upsert(jb, UpsertRow(jb, d, Head(rows)), Tail(rows))

\* The table after one run in which every fetch and every flush succeeds.
RECURSIVE RunItems(_, _, _, _, _)
RunItems(jb, items, dim, pj, d) ==
    IF items = <<>> THEN [db |-> d, projector |-> pj]
    ELSE CHOOSE after \in
             {RunItems(jb, Tail(items), dim, r.projector,
                       IF r.ok THEN UpsertRow(jb, d, r.row) ELSE d) :
                  r \in {RowFor(jb, Head(items), dim, pj)}} : TRUE

RECURSIVE RunDims(_, _, _, _)
RunDims(jb, dims, pj, d) ==
    IF dims = <<>> THEN d
    ELSE CHOOSE after \in
             {RunDims(jb, Tail(dims), r.projector, r.db) :
                  r \in {RunItems(jb, Items(jb), Head(dims), pj, d)}} : TRUE

CompleteRun(jb, dims) == RunDims(jb, dims, NewProjector, {})

DbRolledBackOnFailedFlush(d) == {}

\* The table after a flush whose statement or commit failed: the open
\* transaction is discarded, earlier commits stand.
DbAfterFailedFlush(d) == d

NoHist == [fetched |-> <<>>, upserted |-> <<>>]

BatchNotCleared(batch) == batch

\* pending_sql.clear() / batch_images.clear() / batch_meta.clear() after a flush
\* inside the loop (to_save.clear() and batch.clear() in the other two jobs).
ClearedBatch(batch) == <<>>

\* The loop position after the item at index i.
AfterItem(jb, i) == IF i < Len(Items(jb)) THEN "fetch" ELSE "final"

\* One requests.get attempt of fetch_image for the current item.
F_Attempt ==
    /\ j_pc = "fetch"
    /\ ~FetchReturned(f_log)
    /\ \E outcome \in {"ok", "status", "exception"} :
          f_log' = Append(f_log, [outcome |-> outcome,
                                  slept |-> FetchSleep(job, outcome, Len(f_log))])
    /\ j_pc' = IF FetchReturned(f_log') THEN "fetched" ELSE "fetch"
    /\ UNCHANGED <<job, j_dims, j_run, j_d, j_i, to_save, db, processed, failures,
                   j_err, last_flush, j_projector, j_hist>>
    /\ UNCHANGED nonJobVars

\* The loop body after fetch_image returned None: the item is skipped.
J_Skip ==
    /\ j_pc = "fetched"
    /\ ~FetchedImage(f_log)
    /\ failures' = IF job = "process" THEN failures + 1 ELSE failures
    /\ j_pc' = AfterItem(job, j_i)
    /\ j_i' = j_i + 1
    /\ f_log' = <<>>
    /\ UNCHANGED <<job, j_dims, j_run, j_d, to_save, db, processed, j_err,
                   last_flush, j_projector, j_hist>>
    /\ UNCHANGED nonJobVars

\* The loop body for a fetched image: crop, embed, project, collect the row and
\* flush the batch when it is full.
J_Item ==
    /\ j_pc = "fetched"
    /\ FetchedImage(f_log)
    /\ LET r == RowFor(job, Items(job)[j_i], j_dims[j_d], j_projector)
           batch == IF r.ok THEN Append(to_save, r.row) ELSE to_save
           count == IF job = "prepare" THEN processed + 1 ELSE processed
           seen == Append(j_hist.fetched, [d |-> j_d, i |-> j_i])
       IN  /\ j_projector' = r.projector
           /\ IF r.ok /\ Len(batch) >= BATCH_SIZE
              THEN \E answer \in {"commit", "error"} :
                      /\ last_flush' = answer
                      /\ IF answer = "commit"
                         THEN /\ db' = Upsert(job, db, batch)
                              /\ to_save' = ClearedBatch(batch)
                              /\ processed' = IF job = "process"
                                              THEN count + Len(batch) ELSE count
                              /\ j_pc' = AfterItem(job, j_i)
                              /\ j_err' = j_err
                              /\ j_hist' = [fetched |-> seen,
                                            upserted |-> j_hist.upserted \o batch]
                         ELSE /\ db' = DbAfterFailedFlush(db)
                              /\ to_save' = batch
                              /\ processed' = count
                              /\ j_pc' = "failed"
                              /\ j_err' = "psycopg2.Error"
                              /\ j_hist' = [j_hist EXCEPT !.fetched = seen]
              ELSE /\ to_save' = batch
                   /\ processed' = count
                   /\ j_pc' = AfterItem(job, j_i)
                   /\ j_hist' = [j_hist EXCEPT !.fetched = seen]
                   /\ UNCHANGED <<db, j_err, last_flush>>
    /\ j_i' = j_i + 1
    /\ f_log' = <<>>
    /\ UNCHANGED <<job, j_dims, j_run, j_d, failures>>
    /\ UNCHANGED nonJobVars

\* After the loop: flush what is left, then the next dimension or the end.
J_Final ==
    /\ j_pc = "final"
    /\ \E answer \in (IF to_save # <<>> THEN {"commit", "error"} ELSE {"none"}) :
          IF answer = "error"
          THEN /\ db' = DbAfterFailedFlush(db)
               /\ last_flush' = answer
               /\ j_pc' = "failed"
               /\ j_err' = "psycopg2.Error"
               /\ UNCHANGED <<j_d, j_i, to_save, processed, j_hist>>
          ELSE /\ db' = Upsert(job, db, to_save)
               /\ j_hist' = [j_hist EXCEPT !.upserted = j_hist.upserted \o to_save]
               /\ last_flush' = IF answer = "commit" THEN answer ELSE last_flush
               /\ j_err' = j_err
               /\ IF j_d < Len(j_dims)
                  THEN /\ j_d' = j_d + 1
                       /\ j_i' = 1
                       /\ j_pc' = "fetch"
                       /\ to_save' = <<>>
                       /\ processed' = 0
                  ELSE /\ j_pc' = "done"
                       /\ to_save' = IF job = "prepare" THEN <<>> ELSE to_save
                       /\ processed' = IF job = "process"
                                       THEN processed + Len(to_save) ELSE processed
                       /\ UNCHANGED <<j_d, j_i>>
    /\ UNCHANGED <<job, j_dims, j_run, f_log, failures, j_projector>>
    /\ UNCHANGED nonJobVars

\* The process is killed; its open transaction is lost with the connection.
J_Crash ==
    /\ j_pc \in {"fetch", "fetched", "final"}
    /\ j_pc' = "crashed"
    /\ UNCHANGED <<job, j_dims, j_run, j_d, j_i, f_log, to_save, db, processed,
                   failures, j_err, last_flush, j_projector, j_hist>>
    /\ UNCHANGED nonJobVars

\* The job is started again over the same animals: a new process, the same table.
J_Restart ==
    /\ j_pc \in {"done", "failed", "crashed"}
    /\ j_run < MaxRuns
    /\ j_run' = j_run + 1
    /\ j_pc' = "fetch"
    /\ j_d' = 1
    /\ j_i' = 1
    /\ f_log' = <<>>
    /\ to_save' = <<>>
    /\ processed' = 0
    /\ failures' = 0
    /\ j_err' = ""
    /\ last_flush' = ""
    /\ j_projector' = NewProjector
    /\ j_hist' = NoHist
    /\ UNCHANGED <<job, j_dims, db>>
    /\ UNCHANGED nonJobVars

JobNext ==
    \/ F_Attempt
    \/ J_Skip
    \/ J_Item
    \/ J_Final
    \/ J_Crash
    \/ J_Restart

\* ------------------------------- advanced_embedding_pipeline.YoloCropper
MaxBoxes == 2         \* proposals per image
ALLOWED_CLASSES == {15, 16}
\* BBOX_EXPANSION = 0.12, as a fraction
ExpansionNum == 12
ExpansionDen == 100
\* Box coordinates are given in tenths of a pixel.
CoordDen == 10
\* image.size
ImageWidth == 4
ImageHeight == 4

\* model.predict: boxes (xyxy in tenths of a pixel), class ids, confidences.
\* Boxes inside the image, over its right edge, over its top-left corner, and
\* wholly outside it on either side.
BoxSet ==
    [cls_id : {0, 15, 16},
     conf : {3, 9},
     xyxy : {<<10, 10, 30, 40>>, <<12, 10, 18, 30>>, <<35, 5, 60, 38>>, <<0, 0, 40, 40>>,
             <<-20, -10, 15, 20>>, <<50, 50, 70, 70>>, <<-30, 10, -10, 30>>}]

RECURSIVE SeqsUpTo(_, _)
SeqsUpTo(S, n) ==
    IF n = 0 THEN {<<>>}
    ELSE SeqsUpTo(S, n - 1) \cup
         {Append(q, x) : q \in {t \in SeqsUpTo(S, n - 1) : Len(t) = n - 1}, x \in S}

\* int(x) of the fraction num / den: truncation towards zero.
IntTrunc(num, den) == IF num >= 0 THEN num \div den ELSE -((-num) \div den)

\* Lines 127-138: expand by BBOX_EXPANSION of the width / height, truncate to
\* whole pixels, clamp to the image.
ExpandClamp(xyxy) ==
    LET w == xyxy[3] - xyxy[1]
        h == xyxy[4] - xyxy[2]
        den == CoordDen * ExpansionDen
    IN  <<Max(0, IntTrunc(xyxy[1] * ExpansionDen - w * ExpansionNum, den)),
          Max(0, IntTrunc(xyxy[2] * ExpansionDen - h * ExpansionNum, den)),
          Min(ImageWidth, IntTrunc(xyxy[3] * ExpansionDen + w * ExpansionNum, den)),
          Min(ImageHeight, IntTrunc(xyxy[4] * ExpansionDen + h * ExpansionNum, den))>>

UsableNoAreaCheck(box) == box.cls_id \in ALLOWED_CLASSES

\* Lines 123 and 139: the proposal is not skipped by a `continue`.
Usable(box) ==
    /\ box.cls_id \in ALLOWED_CLASSES
    /\ ~(ExpandClamp(box.xyxy)[3] <= ExpandClamp(box.xyxy)[1]
         \/ ExpandClamp(box.xyxy)[4] <= ExpandClamp(box.xyxy)[2])

NoBest == [crop |-> <<>>, bbox |-> <<>>, conf |-> -1, cls_id |-> -2]

ReplacesBestAlways(best, conf) == TRUE

\* Line 142: best is None or conf > best.conf
ReplacesBest(best, conf) == best = NoBest \/ conf > best.conf

\* The loop of lines 117-143 over the proposals.
RECURSIVE BestOf(_, _)
BestOf(boxes, best) ==
    IF boxes = <<>> THEN best
    ELSE LET box == Head(boxes)
             bbox == ExpandClamp(box.xyxy)
         IN  BestOf(Tail(boxes),
                    IF Usable(box) /\ ReplacesBest(best, box.conf)
                    THEN [crop |-> bbox, bbox |-> bbox, conf |-> box.conf,
                          cls_id |-> box.cls_id]
                    ELSE best)

\* detect_best_crop: the best proposal, or the full image. A crop is named by
\* the region of the image it shows.
DetectBestCrop(boxes) ==
    IF BestOf(boxes, NoBest) = NoBest
    THEN [crop |-> <<0, 0, ImageWidth, ImageHeight>>,
          bbox |-> <<0, 0, ImageWidth, ImageHeight>>, conf |-> 0, cls_id |-> -1]
    ELSE BestOf(boxes, NoBest)

Y_Detect ==
    /\ d_pc = "start"
    /\ d_result' = DetectBestCrop(d_boxes)
    /\ d_pc' = "returned"
    /\ UNCHANGED d_boxes
    /\ UNCHANGED nonDetVars

DetectNext == Y_Detect

\* ------------------------------- save_code.py / shelter.py / load_code.py
MaxItems == 3         \* items the server holds for one (day, upkind)

NoServer == [items |-> 0, totalCount |-> 0]
\* The server holds finitely many items; the totalCount it reports may differ
\* from that number (by one either way here).
Servers ==
    {sv \in [items : 0..MaxItems, totalCount : 0..(MaxItems + 1)] :
        sv.totalCount \in {sv.items - 1, sv.items, sv.items + 1}}

\* len(items) of page number p with rows items per page.
PageLen(sv, rows, p) == Max(0, Min(rows, sv.items - (p - 1) * rows))

\* The first page number from which every page is empty and looks like the next.
PastData(sv, rows) == ((sv.items + rows - 1) \div rows) + 1

\* page += 1; page numbers past the data are not told apart.
NextPage(sv, rows, p) == Min(p + 1, PastData(sv, rows) + 1)

\* save_code.py, line 42: an empty page ends the loop only if got >= total or
\* total == 0; otherwise the next page is requested.
StopsOnEmptyPage(got, total) == got >= total \/ total = 0

\* The loop body after a fetch_page that returned data: what it adds to got and
\* day_saved, and whether it breaks.
AfterPage(file, sv, rows, p, got) ==
    LET n == PageLen(sv, rows, p)
        total == sv.totalCount
    IN  IF file = "save_code"
        THEN IF n = 0
             THEN [got |-> got, saved |-> 0, stop |-> StopsOnEmptyPage(got, total)]
             ELSE [got |-> got + n, saved |-> n, stop |-> (got + n >= total)]
        ELSE [got |-> got, saved |-> n, stop |-> (n < rows)]

\* One iteration of `while True`: fetch_page returned data.
S_Page ==
    /\ s_pc = "loop"
    /\ LET r == AfterPage(s_file, s_server, s_rows, s_page, s_got)
       IN  /\ s_got' = r.got
           /\ s_saved' = s_saved + r.saved
           /\ s_pc' = IF r.stop THEN "done" ELSE "loop"
           /\ s_page' = IF r.stop THEN s_page ELSE NextPage(s_server, s_rows, s_page)
    /\ s_requests' = 1 - s_requests
    /\ UNCHANGED <<s_file, s_server, s_rows>>
    /\ UNCHANGED nonSyncVars

\* One iteration in which fetch_page returned {} (status, JSON or API error):
\* `if not data: break`.
S_NoData ==
    /\ s_pc = "loop"
    /\ s_pc' = "done"
    /\ s_requests' = 1 - s_requests
    /\ UNCHANGED <<s_file, s_server, s_rows, s_page, s_got, s_saved>>
    /\ UNCHANGED nonSyncVars

SyncNext ==
    \/ S_Page
    \/ S_NoData

\* ---------------------------------------------------------- specifications
\* A search program started on a table, with its arguments and COARSE_TOPK.
SearchInit ==
    /\ prog \in {"triplet", "baseline"}
    /\ store \in StoreSet
    /\ topk \in -1..MaxK
    /\ coarse_topk \in (IF prog = "triplet" THEN 0..MaxK ELSE {0})
    /\ pc = "start"
    /\ head = ""
    /\ detection = NoDetection
    /\ query_vec = <<>>
    /\ store_read = FALSE
    /\ dataset = <<>>
    /\ shortlist = <<>>
    /\ scores = <<>>
    /\ stdout = <<>>
    /\ err = ""
    /\ ckpt_seen = NoSeen
    /\ search_env = NoEnv
    /\ fetched = <<>>
    /\ train_ds = NoDataset
    /\ g_pc = "off"
    /\ g_idx = 0
    /\ did = ""
    /\ neg_id = ""
    /\ example = NoExample
    /\ projector = [p \in Procs |-> NewProjector]
    /\ projected = NoProjected
    /\ pinned = NoPinned
    /\ t_group = <<>>
    /\ v_group = <<>>
    /\ t_args = NoArgs
    /\ t_pc = "off"
    /\ t_ds = NoDataset
    /\ v_ds = NoDataset
    /\ epoch = 0
    /\ step = 0
    /\ weights = 0
    /\ epoch_log = <<>>
    /\ ckpt_file = NoFile
    /\ t_saves = 0
    /\ t_err = ""
    /\ job = "none"
    /\ j_dims = <<>>
    /\ j_run = 0
    /\ j_pc = "off"
    /\ j_d = 0
    /\ j_i = 0
    /\ f_log = <<>>
    /\ to_save = <<>>
    /\ db = {}
    /\ processed = 0
    /\ failures = 0
    /\ j_err = ""
    /\ last_flush = ""
    /\ j_projector = NewProjector
    /\ j_hist = NoHist
    /\ d_boxes = <<>>
    /\ d_pc = "off"
    /\ d_result = NoBest
    /\ s_file = "none"
    /\ s_server = NoServer
    /\ s_rows = 0
    /\ s_pc = "off"
    /\ s_page = 0
    /\ s_got = 0
    /\ s_saved = 0
    /\ s_requests = 0

\* The search programs.
Spec == SearchInit /\ [][SearchNext]_vars

\* train(): the groups fetched for a split, before TripletDataset is built.
DatasetInit ==
    /\ fetched \in FetchedSet
    /\ train_ds = NoDataset
    /\ g_pc = "new"
    /\ g_idx = 0
    /\ did = ""
    /\ neg_id = ""
    /\ example = NoExample
    /\ prog = "none"
    /\ store = <<>>
    /\ topk = 0
    /\ coarse_topk = 0
    /\ pc = "off"
    /\ head = ""
    /\ detection = NoDetection
    /\ query_vec = <<>>
    /\ store_read = FALSE
    /\ dataset = <<>>
    /\ shortlist = <<>>
    /\ scores = <<>>
    /\ stdout = <<>>
    /\ err = ""
    /\ ckpt_seen = NoSeen
    /\ search_env = NoEnv
    /\ projector = [p \in Procs |-> NewProjector]
    /\ projected = NoProjected
    /\ pinned = NoPinned
    /\ t_group = <<>>
    /\ v_group = <<>>
    /\ t_args = NoArgs
    /\ t_pc = "off"
    /\ t_ds = NoDataset
    /\ v_ds = NoDataset
    /\ epoch = 0
    /\ step = 0
    /\ weights = 0
    /\ epoch_log = <<>>
    /\ ckpt_file = NoFile
    /\ t_saves = 0
    /\ t_err = ""
    /\ job = "none"
    /\ j_dims = <<>>
    /\ j_run = 0
    /\ j_pc = "off"
    /\ j_d = 0
    /\ j_i = 0
    /\ f_log = <<>>
    /\ to_save = <<>>
    /\ db = {}
    /\ processed = 0
    /\ failures = 0
    /\ j_err = ""
    /\ last_flush = ""
    /\ j_projector = NewProjector
    /\ j_hist = NoHist
    /\ d_boxes = <<>>
    /\ d_pc = "off"
    /\ d_result = NoBest
    /\ s_file = "none"
    /\ s_server = NoServer
    /\ s_rows = 0
    /\ s_pc = "off"
    /\ s_page = 0
    /\ s_got = 0
    /\ s_saved = 0
    /\ s_requests = 0

\* TripletDataset construction and sampling.
DatasetSpec == DatasetInit /\ [][DatasetNext]_vars

\* Every process starts with a fresh Projector.
ProjInit ==
    /\ projector = [p \in Procs |-> NewProjector]
    /\ projected = NoProjected
    /\ pinned = NoPinned
    /\ prog = "none"
    /\ store = <<>>
    /\ topk = 0
    /\ coarse_topk = 0
    /\ pc = "off"
    /\ head = ""
    /\ detection = NoDetection
    /\ query_vec = <<>>
    /\ store_read = FALSE
    /\ dataset = <<>>
    /\ shortlist = <<>>
    /\ scores = <<>>
    /\ stdout = <<>>
    /\ err = ""
    /\ ckpt_seen = NoSeen
    /\ search_env = NoEnv
    /\ fetched = <<>>
    /\ train_ds = NoDataset
    /\ g_pc = "off"
    /\ g_idx = 0
    /\ did = ""
    /\ neg_id = ""
    /\ example = NoExample
    /\ t_group = <<>>
    /\ v_group = <<>>
    /\ t_args = NoArgs
    /\ t_pc = "off"
    /\ t_ds = NoDataset
    /\ v_ds = NoDataset
    /\ epoch = 0
    /\ step = 0
    /\ weights = 0
    /\ epoch_log = <<>>
    /\ ckpt_file = NoFile
    /\ t_saves = 0
    /\ t_err = ""
    /\ job = "none"
    /\ j_dims = <<>>
    /\ j_run = 0
    /\ j_pc = "off"
    /\ j_d = 0
    /\ j_i = 0
    /\ f_log = <<>>
    /\ to_save = <<>>
    /\ db = {}
    /\ processed = 0
    /\ failures = 0
    /\ j_err = ""
    /\ last_flush = ""
    /\ j_projector = NewProjector
    /\ j_hist = NoHist
    /\ d_boxes = <<>>
    /\ d_pc = "off"
    /\ d_result = NoBest
    /\ s_file = "none"
    /\ s_server = NoServer
    /\ s_rows = 0
    /\ s_pc = "off"
    /\ s_page = 0
    /\ s_got = 0
    /\ s_saved = 0
    /\ s_requests = 0

\* Projector instances of several processes.
ProjSpec == ProjInit /\ [][ProjNext]_vars

\* A call of train(): the rows of both splits, the arguments, the file at ckpt_path.
TrainInit ==
    /\ t_group \in FetchedSet
    /\ v_group \in ValidGroups
    /\ t_args \in TrainArgs
    /\ t_pc = "start"
    /\ t_ds = NoDataset
    /\ v_ds = NoDataset
    /\ epoch = 0
    /\ step = 0
    /\ weights = 0
    /\ epoch_log = <<>>
    /\ ckpt_file \in {NoFile, OldCkpt}
    /\ t_saves = 0
    /\ t_err = ""
    /\ prog = "none"
    /\ store = <<>>
    /\ topk = 0
    /\ coarse_topk = 0
    /\ pc = "off"
    /\ head = ""
    /\ detection = NoDetection
    /\ query_vec = <<>>
    /\ store_read = FALSE
    /\ dataset = <<>>
    /\ shortlist = <<>>
    /\ scores = <<>>
    /\ stdout = <<>>
    /\ err = ""
    /\ ckpt_seen = NoSeen
    /\ search_env = NoEnv
    /\ fetched = <<>>
    /\ train_ds = NoDataset
    /\ g_pc = "off"
    /\ g_idx = 0
    /\ did = ""
    /\ neg_id = ""
    /\ example = NoExample
    /\ projector = [p \in Procs |-> NewProjector]
    /\ projected = NoProjected
    /\ pinned = NoPinned
    /\ job = "none"
    /\ j_dims = <<>>
    /\ j_run = 0
    /\ j_pc = "off"
    /\ j_d = 0
    /\ j_i = 0
    /\ f_log = <<>>
    /\ to_save = <<>>
    /\ db = {}
    /\ processed = 0
    /\ failures = 0
    /\ j_err = ""
    /\ last_flush = ""
    /\ j_projector = NewProjector
    /\ j_hist = NoHist
    /\ d_boxes = <<>>
    /\ d_pc = "off"
    /\ d_result = NoBest
    /\ s_file = "none"
    /\ s_server = NoServer
    /\ s_rows = 0
    /\ s_pc = "off"
    /\ s_page = 0
    /\ s_got = 0
    /\ s_saved = 0
    /\ s_requests = 0

\* One run of train().
TrainSpec == TrainInit /\ [][TrainNext]_vars

\* A write job started on an empty embedding table.
JobInit ==
    /\ job \in {"process", "prepare", "augment"}
    /\ j_dims \in DimLists(job)
    /\ j_run = 1
    /\ j_pc = "fetch"
    /\ j_d = 1
    /\ j_i = 1
    /\ f_log = <<>>
    /\ to_save = <<>>
    /\ db = {}
    /\ processed = 0
    /\ failures = 0
    /\ j_err = ""
    /\ last_flush = ""
    /\ j_projector = NewProjector
    /\ j_hist = NoHist
    /\ prog = "none"
    /\ store = <<>>
    /\ topk = 0
    /\ coarse_topk = 0
    /\ pc = "off"
    /\ head = ""
    /\ detection = NoDetection
    /\ query_vec = <<>>
    /\ store_read = FALSE
    /\ dataset = <<>>
    /\ shortlist = <<>>
    /\ scores = <<>>
    /\ stdout = <<>>
    /\ err = ""
    /\ ckpt_seen = NoSeen
    /\ search_env = NoEnv
    /\ fetched = <<>>
    /\ train_ds = NoDataset
    /\ g_pc = "off"
    /\ g_idx = 0
    /\ did = ""
    /\ neg_id = ""
    /\ example = NoExample
    /\ projector = [p \in Procs |-> NewProjector]
    /\ projected = NoProjected
    /\ pinned = NoPinned
    /\ t_group = <<>>
    /\ v_group = <<>>
    /\ t_args = NoArgs
    /\ t_pc = "off"
    /\ t_ds = NoDataset
    /\ v_ds = NoDataset
    /\ epoch = 0
    /\ step = 0
    /\ weights = 0
    /\ epoch_log = <<>>
    /\ ckpt_file = NoFile
    /\ t_saves = 0
    /\ t_err = ""
    /\ d_boxes = <<>>
    /\ d_pc = "off"
    /\ d_result = NoBest
    /\ s_file = "none"
    /\ s_server = NoServer
    /\ s_rows = 0
    /\ s_pc = "off"
    /\ s_page = 0
    /\ s_got = 0
    /\ s_saved = 0
    /\ s_requests = 0

\* Runs of a write job over the same animals.
JobSpec == JobInit /\ [][JobNext]_vars

\* An image and the proposals the detector makes for it.
DetectInit ==
    /\ d_boxes \in SeqsUpTo(BoxSet, MaxBoxes)
    /\ d_pc = "start"
    /\ d_result = NoBest
    /\ prog = "none"
    /\ store = <<>>
    /\ topk = 0
    /\ coarse_topk = 0
    /\ pc = "off"
    /\ head = ""
    /\ detection = NoDetection
    /\ query_vec = <<>>
    /\ store_read = FALSE
    /\ dataset = <<>>
    /\ shortlist = <<>>
    /\ scores = <<>>
    /\ stdout = <<>>
    /\ err = ""
    /\ ckpt_seen = NoSeen
    /\ search_env = NoEnv
    /\ fetched = <<>>
    /\ train_ds = NoDataset
    /\ g_pc = "off"
    /\ g_idx = 0
    /\ did = ""
    /\ neg_id = ""
    /\ example = NoExample
    /\ projector = [p \in Procs |-> NewProjector]
    /\ projected = NoProjected
    /\ pinned = NoPinned
    /\ t_group = <<>>
    /\ v_group = <<>>
    /\ t_args = NoArgs
    /\ t_pc = "off"
    /\ t_ds = NoDataset
    /\ v_ds = NoDataset
    /\ epoch = 0
    /\ step = 0
    /\ weights = 0
    /\ epoch_log = <<>>
    /\ ckpt_file = NoFile
    /\ t_saves = 0
    /\ t_err = ""
    /\ job = "none"
    /\ j_dims = <<>>
    /\ j_run = 0
    /\ j_pc = "off"
    /\ j_d = 0
    /\ j_i = 0
    /\ f_log = <<>>
    /\ to_save = <<>>
    /\ db = {}
    /\ processed = 0
    /\ failures = 0
    /\ j_err = ""
    /\ last_flush = ""
    /\ j_projector = NewProjector
    /\ j_hist = NoHist
    /\ s_file = "none"
    /\ s_server = NoServer
    /\ s_rows = 0
    /\ s_pc = "off"
    /\ s_page = 0
    /\ s_got = 0
    /\ s_saved = 0
    /\ s_requests = 0

\* One call of detect_best_crop.
DetectSpec == DetectInit /\ [][DetectNext]_vars

\* The pagination loop of sync_range for one (day, upkind), at `page = 1`.
SyncInit ==
    /\ s_file \in {"save_code", "shelter", "load_code"}
    /\ s_server \in Servers
    /\ s_rows \in 1..2
    /\ s_pc = "loop"
    /\ s_page = 1
    /\ s_got = 0
    /\ s_saved = 0
    /\ s_requests = 0
    /\ prog = "none"
    /\ store = <<>>
    /\ topk = 0
    /\ coarse_topk = 0
    /\ pc = "off"
    /\ head = ""
    /\ detection = NoDetection
    /\ query_vec = <<>>
    /\ store_read = FALSE
    /\ dataset = <<>>
    /\ shortlist = <<>>
    /\ scores = <<>>
    /\ stdout = <<>>
    /\ err = ""
    /\ ckpt_seen = NoSeen
    /\ search_env = NoEnv
    /\ fetched = <<>>
    /\ train_ds = NoDataset
    /\ g_pc = "off"
    /\ g_idx = 0
    /\ did = ""
    /\ neg_id = ""
    /\ example = NoExample
    /\ projector = [p \in Procs |-> NewProjector]
    /\ projected = NoProjected
    /\ pinned = NoPinned
    /\ t_group = <<>>
    /\ v_group = <<>>
    /\ t_args = NoArgs
    /\ t_pc = "off"
    /\ t_ds = NoDataset
    /\ v_ds = NoDataset
    /\ epoch = 0
    /\ step = 0
    /\ weights = 0
    /\ epoch_log = <<>>
    /\ ckpt_file = NoFile
    /\ t_saves = 0
    /\ t_err = ""
    /\ job = "none"
    /\ j_dims = <<>>
    /\ j_run = 0
    /\ j_pc = "off"
    /\ j_d = 0
    /\ j_i = 0
    /\ f_log = <<>>
    /\ to_save = <<>>
    /\ db = {}
    /\ processed = 0
    /\ failures = 0
    /\ j_err = ""
    /\ last_flush = ""
    /\ j_projector = NewProjector
    /\ j_hist = NoHist
    /\ d_boxes = <<>>
    /\ d_pc = "off"
    /\ d_result = NoBest

\* The pagination loop of one (day, upkind).
SyncSpec == SyncInit /\ [][SyncNext]_vars

\* ------------------------------------------------------------ properties
Finished == pc = "done" /\ stdout # <<>>
Results == IF stdout = <<>> THEN <<>> ELSE stdout[Len(stdout)].results
TwoStageDone == prog = "triplet" /\ Finished

\* C1: no desertion_no appears twice in the results of the two-stage search.
C1_NoDuplicateIds ==
    TwoStageDone =>
        \A i, j \in 1..Len(Results) :
            i # j => Results[i].desertion_no # Results[j].desertion_no

\* C1 witness: both sides of one entity were shortlisted and a result was returned.
C1_Witness ==
    /\ TwoStageDone
    /\ Len(Results) >= 1
    /\ \E i, j \in 1..Len(shortlist) :
          i # j /\ shortlist[i].desertion_no = shortlist[j].desertion_no

\* C2: result similarities are non-increasing by position.
C2_NonIncreasing ==
    TwoStageDone =>
        \A i \in 1..Len(Results) :
            i < Len(Results) => Results[i].similarity >= Results[i + 1].similarity

\* C2 witness: two results with different similarities, the coarse order being
\* the opposite of the reranked order.
C2_Witness ==
    /\ TwoStageDone
    /\ Len(Results) = 2
    /\ Results[1].similarity > Results[2].similarity
    /\ \E i, j \in 1..Len(shortlist) :
          /\ i < j
          /\ shortlist[i].desertion_no = Results[2].desertion_no
          /\ shortlist[j].desertion_no = Results[1].desertion_no

SameEntry(r, e) ==
    /\ e.desertion_no = r.desertion_no
    /\ e.side = r.side
    /\ e.vec.head = r.similarity
    /\ e.up_kind_cd = r.up_kind_cd
    /\ e.sex_cd = r.sex_cd
    /\ e.notice_sdt = r.notice_sdt

\* C3 as stated: every result carries the maximum head-space similarity among
\* all the sides its entity has in the filtered dataset, with the side and
\* metadata of an entry that achieved it.
C3_MaxAmongAllSides ==
    TwoStageDone =>
        \A i \in 1..Len(Results) :
            /\ \E n \in 1..Len(dataset) : SameEntry(Results[i], dataset[n])
            /\ \A n \in 1..Len(dataset) :
                  dataset[n].desertion_no = Results[i].desertion_no
                      => dataset[n].vec.head <= Results[i].similarity

\* C3 amended: every result carries the maximum head-space similarity among the
\* sides of its entity that the coarse stage shortlisted, with the side and
\* metadata of a shortlisted entry that achieved it.
C3_MaxAmongShortlisted ==
    TwoStageDone =>
        \A i \in 1..Len(Results) :
            /\ \E n \in 1..Len(shortlist) : SameEntry(Results[i], shortlist[n])
            /\ \A n \in 1..Len(shortlist) :
                  shortlist[n].desertion_no = Results[i].desertion_no
                      => shortlist[n].vec.head <= Results[i].similarity

\* C3 witness: an entity with two shortlisted sides of different similarity is
\* returned with the larger one.
C3_Witness ==
    /\ TwoStageDone
    /\ \E i \in 1..Len(Results) : \E n \in 1..Len(shortlist) :
          /\ shortlist[n].desertion_no = Results[i].desertion_no
          /\ shortlist[n].vec.head < Results[i].similarity

AfterCoarse == prog = "triplet" /\ pc \in {"rerank", "select"}

\* C4: with D >= 1 filtered entries the shortlist has exactly
\* min(D, max(K, COARSE_TOPK)) entries, distinct entries of the dataset, and no
\* entry left out has a higher coarse cosine than a shortlisted one.
C4_ShortlistTopN ==
    (AfterCoarse /\ Len(dataset) >= 1) =>
        /\ Len(shortlist) = Min(Len(dataset), Max(topk, coarse_topk))
        /\ \A i \in 1..Len(shortlist) : \E n \in 1..Len(dataset) : shortlist[i] = dataset[n]
        /\ \A i, j \in 1..Len(shortlist) : i # j => shortlist[i] # shortlist[j]
        /\ \A n \in 1..Len(dataset) :
              (\A i \in 1..Len(shortlist) : shortlist[i] # dataset[n])
                  => \A i \in 1..Len(shortlist) : dataset[n].vec.cos <= shortlist[i].vec.cos

\* C4 witness: topk above the pool size decides the shortlist size, and an entry
\* with a lower cosine is left out.
C4_Witness ==
    /\ AfterCoarse
    /\ topk > coarse_topk
    /\ Len(shortlist) = topk
    /\ \E n \in 1..Len(dataset) :
          /\ \A i \in 1..Len(shortlist) : shortlist[i] # dataset[n]
          /\ \E i \in 1..Len(shortlist) : dataset[n].vec.cos < shortlist[i].vec.cos

\* Nothing to score: the table gave no usable row, or the filters left none.
NothingToScore ==
    /\ store_read
    /\ pc \in {"done", "failed"}
    /\ dataset = <<>> \/ (prog = "baseline" /\ pc = "done" /\ scores = <<>>)

\* C5: with nothing to score, either search program ends normally and prints
\* {query_bbox, results: []} with the detection's box and confidence.
C5_EmptyDatasetNotFatal ==
    NothingToScore =>
        /\ pc = "done"
        /\ err = ""
        /\ stdout = <<[query_bbox |-> QueryBbox(detection), results |-> <<>>]>>

PastDimCheck == pc \in {"load", "coarse", "rerank", "select", "score", "done"}

\* C6: a query longer than EMBED_DIM continues as its first EMBED_DIM components,
\* one of EMBED_DIM components continues unchanged, and a shorter one ends the
\* search with the dimension error before the table is read, never padded.
C6_QueryDimension ==
    /\ PastDimCheck =>
          \E img \in QueryImages :
              /\ Len(img.embedding) >= EMBED_DIM
              /\ detection = img.detection
              /\ query_vec = SubSeq(img.embedding, 1, EMBED_DIM)
    /\ err = "RuntimeError: query dim" =>
          /\ pc = "failed"
          /\ query_vec \in {img.embedding : img \in QueryImages}
          /\ Len(query_vec) < EMBED_DIM
          /\ ~store_read /\ dataset = <<>> /\ scores = <<>> /\ stdout = <<>>
    /\ (pc = "failed" /\ query_vec # <<>> /\ Len(query_vec) < EMBED_DIM)
          => err = "RuntimeError: query dim"

\* C6 witness: a query of EMBED_DIM + 1 components, cut to EMBED_DIM, got results.
C6_Witness ==
    /\ Finished
    /\ query_vec = <<6, 8>>
    /\ Len(Results) >= 1


Returned == g_pc = "returned"

\* C7: in every returned example the strong positive is another vector slot of
\* the anchor's entity and the negative belongs to a different entity.
C7_TripletValidity ==
    Returned =>
        /\ example.anchor.id = did
        /\ example.positive_strong.id = example.anchor.id
        /\ example.positive_strong.slot # example.anchor.slot
        /\ example.negative.id # example.anchor.id
        /\ \A v \in {example.anchor, example.positive_strong, example.negative} :
              \E i \in 1..Len(fetched) :
                  fetched[i].id = v.id /\ v.slot \in 1..fetched[i].n

\* C7 witness: an example of an anchor entity that is also in the negative pool,
\* with the second slot as anchor.
C7_Witness ==
    /\ Returned
    /\ Len(train_ds.ids) >= 2
    /\ example.anchor.slot = 2
    /\ example.negative.id # ""

SingleVectorIds == {fetched[i].id : i \in {j \in 1..Len(fetched) : fetched[j].n = 1}}

\* C8: an entity with exactly one vector is never the anchor / strong-positive
\* source, yet stays in the pool the negative is drawn from.
C8_SingleVectorEntityIsNegativeSource ==
    g_pc \in {"idle", "negloop", "returned"} =>
        \A e \in SingleVectorIds :
            /\ e \notin Range(train_ds.ids)
            /\ did # e
            /\ e \in Range(train_ds.neg_ids)

\* The entities that share the anchor's (kind, color) among all fetched ones.
SharedKeyIds ==
    {fetched[i].id : i \in {j \in 1..Len(fetched) :
        /\ fetched[j].id # did
        /\ \E a \in 1..Len(fetched) :
              /\ fetched[a].id = did
              /\ fetched[a].kind = fetched[j].kind
              /\ fetched[a].color = fetched[j].color}}

\* C9: the weak positive is a vector of another fetched entity with the anchor's
\* (kind, color) whenever one exists; only otherwise is it the strong positive.
C9_WeakPositiveFromSharedKey ==
    Returned =>
        IF SharedKeyIds # {}
        THEN example.weak_vec.id \in SharedKeyIds
        ELSE example.weak_vec = example.positive_strong

\* C10: two Projector instances with the same seed hold the same matrix for
\* every (sourceDim, targetDim) pair both have built, whatever they built before.
C10_MatrixFunctionOfSeedAndDims ==
    \A p, q \in Procs :
        \A key \in (DOMAIN projector[p].cache) \cap (DOMAIN projector[q].cache) :
            projector[p].cache[key] = projector[q].cache[key]

\* A repetition of the kept call, after another matrix was built in between.
RepeatOfPinned ==
    /\ pinned # NoPinned
    /\ projected.proc = pinned.proc
    /\ projected.vec = pinned.vec
    /\ projected.target_dim = pinned.target_dim

\* C11: within one process, a project call with the same vector and the same
\* target dimension as an earlier call returns the same output, whatever other
\* project calls ran in between; a matrix once cached is never replaced.
C11_RepeatedProjectSameOutput ==
    /\ [](RepeatOfPinned => projected.out = pinned.out)
    /\ [][\A p \in Procs : \A key \in DOMAIN projector[p].cache :
              /\ key \in DOMAIN projector'[p].cache
              /\ projector'[p].cache[key] = projector[p].cache[key]]_vars

\* C11 witness: the kept call used a matrix, the same call is repeated after the
\* generator moved on (another matrix was built in between).
C11_Witness ==
    /\ RepeatOfPinned
    /\ Len(pinned.vec) # pinned.target_dim
    /\ projector[pinned.proc].rng # pinned.rng

IdentityCall == projected.proc # 0 /\ Len(projected.vec) = projected.target_dim

\* C12: project(v, len(v)) returns v itself and leaves the projector as it was:
\* no matrix is built or cached for the key (len(v), len(v)) and the random
\* generator is not advanced.
C12_IdentityProjection ==
    /\ [](IdentityCall => projected.out = projected.vec)
    /\ [](\A p \in Procs : \A key \in DOMAIN projector[p].cache : key[1] # key[2])
    /\ [][(Len(projected'.vec) = projected'.target_dim) => projector' = projector]_vars

\* C12 witness: an equal-dimension call made by a process that already holds a matrix.
C12_Witness ==
    /\ IdentityCall
    /\ DOMAIN projector[projected.proc].cache # {}

TrainStarted == t_pc \in {"epoch", "done", "failed", "hung"}
NoEligibleTrainEntity == EligibleGroups(t_group) = <<>>

\* C13: when the train split holds no entity with at least two vectors, train()
\* ends with an error before the first epoch: no batch, no optimizer step, no
\* validation pass and no checkpoint write happen.
C13_NoEligibleEntityFailsAtOnce ==
    (TrainStarted /\ NoEligibleTrainEntity) =>
        /\ t_pc = "failed"
        /\ t_err \in {"RuntimeError: No train embeddings found", "ValueError: num_samples"}
        /\ epoch = 0 /\ step = 0 /\ weights = 0 /\ epoch_log = <<>>
        /\ t_saves = 0
        /\ ckpt_file \in {NoFile, OldCkpt}

\* C13 witness: the split has rows, every entity has a single vector, epochs were
\* configured, and train() ended with the error.
C13_Witness ==
    /\ t_pc = "failed"
    /\ t_group # <<>>
    /\ NoEligibleTrainEntity
    /\ t_args.epochs >= 1

\* C14: train() calls torch.save at most once, only after all configured epochs
\* completed; the file then holds the model state reached at the end of the last
\* epoch together with embed_dim, table, epochs and margin of the call; a run that
\* has not completed every epoch leaves the file at ckpt_path as it was.
C14_OneCheckpointAfterLastEpoch ==
    /\ t_saves <= 1
    /\ t_pc = "done" => t_saves = 1
    /\ t_saves = 1 =>
          /\ t_pc = "done"
          /\ epoch = t_args.epochs
          /\ Len(epoch_log) = t_args.epochs
          /\ ckpt_file =
                [state_dict |-> IF epoch_log = <<>> THEN 0
                                ELSE epoch_log[Len(epoch_log)].weights,
                 embed_dim |-> t_args.embed_dim,
                 table |-> t_args.table,
                 epochs |-> t_args.epochs,
                 margin |-> t_args.margin]
    /\ t_saves = 0 => ckpt_file \in {NoFile, OldCkpt}
    /\ t_pc \in {"failed", "hung"} => t_saves = 0
    /\ (t_pc \in {"epoch", "failed", "hung"} /\ epoch < t_args.epochs) => t_saves = 0

\* C14 witness: two epochs were trained, the first had the lower validation loss,
\* and the checkpoint was written.
C14_Witness ==
    /\ t_pc = "done"
    /\ Len(epoch_log) = 2
    /\ epoch_log[1].val_loss < epoch_log[2].val_loss
    /\ epoch_log[1].weights < epoch_log[2].weights
    /\ ckpt_file.state_dict = epoch_log[2].weights

FetchExhausted == j_pc = "fetched" /\ ~FetchedImage(f_log)

\* C15: fetch_image makes at most MAX_RETRIES + 1 attempts for an item; when all
\* of them failed, the job's next step counts one more failure, adds no row to
\* the batch or the table, and goes on with the next item (or the end of the
\* loop) without raising.
C15_ExhaustedFetchSkippedAndCounted ==
    /\ [](Len(f_log) <= MAX_RETRIES + 1)
    /\ [][(FetchExhausted /\ j_pc' # "crashed") =>
              /\ failures' = failures + 1
              /\ to_save' = to_save
              /\ db' = db
              /\ j_i' = j_i + 1
              /\ j_pc' \in {"fetch", "final"}
              /\ j_err' = ""]_vars

\* C16: within one fetch_image call every attempt that is followed by another
\* attempt was followed by a sleep, and each such sleep is longer than the one
\* before it, whether the attempt failed by exception or by HTTP status.
C16_BackoffBeforeEveryRetry ==
    \A n \in 1..Len(f_log) :
        n < Len(f_log) =>
            /\ f_log[n].slept > 0
            /\ n >= 2 => f_log[n].slept > f_log[n - 1].slept

\* C17: a flush that fails ends the run with the error raised; a failed flush
\* or a crash leaves the committed rows as they were; committed rows are never
\* lost later; and whenever a batch is flushed all its rows are in the table
\* right after that step.
C17_BatchIsCommitBoundary ==
    /\ [](last_flush = "error" => (j_pc = "failed" /\ j_err # ""))
    /\ [][j_pc' \in {"failed", "crashed"} => db' = db]_vars
    /\ [][\A r \in db : \E q \in db' : ConflictKey(job, q) = ConflictKey(job, r)]_vars
    /\ [][(j_run' = j_run /\ j_d' = j_d /\ Len(to_save') < Len(to_save)) =>
              \A i \in 1..Len(to_save) : to_save[i] \in db']_vars

\* C17 witness: in the first run a batch was committed and a later flush failed.
C17_Witness ==
    /\ j_run = 1
    /\ j_pc = "failed"
    /\ last_flush = "error"
    /\ db # {}
    /\ to_save # <<>>

\* C18: whatever runs were made, the table holds at most one row per
\* (table, desertion_no, embedding_side) and every row equals the row a single
\* complete run writes for that key.
C18_RerunsGiveCompleteRunRows ==
    /\ \A r, q \in db :
          (r.table = q.table /\ r.desertion_no = q.desertion_no /\ r.side = q.side)
              => r = q
    /\ \A r \in db : r \in CompleteRun(job, j_dims)

UsableBoxes == {i \in 1..Len(d_boxes) : Usable(d_boxes[i])}

\* C19: detect_best_crop returns a proposal of an allowed class whose expanded,
\* clamped box has positive width and height, with that box as bbox and crop and
\* a confidence no usable proposal exceeds; with no usable proposal it returns
\* the full image, bbox (0, 0, width, height), confidence 0 and class id -1.
C19_BestCropOrFullImage ==
    d_pc = "returned" =>
        IF UsableBoxes = {}
        THEN d_result = [crop |-> <<0, 0, ImageWidth, ImageHeight>>,
                         bbox |-> <<0, 0, ImageWidth, ImageHeight>>,
                         conf |-> 0, cls_id |-> -1]
        ELSE \E i \in UsableBoxes :
                /\ d_result.bbox = ExpandClamp(d_boxes[i].xyxy)
                /\ d_result.crop = d_result.bbox
                /\ d_result.conf = d_boxes[i].conf
                /\ d_result.cls_id = d_boxes[i].cls_id
                /\ d_result.bbox[1] >= 0 /\ d_result.bbox[2] >= 0
                /\ d_result.bbox[3] <= ImageWidth /\ d_result.bbox[4] <= ImageHeight
                /\ d_result.bbox[1] < d_result.bbox[3]
                /\ d_result.bbox[2] < d_result.bbox[4]
                /\ \A j \in UsableBoxes : d_boxes[j].conf <= d_result.conf

\* C19 witness: the first proposal is usable with the higher confidence, the
\* second usable with a lower one, and the first one's box was clamped.
C19_Witness ==
    /\ d_pc = "returned"
    /\ Len(d_boxes) = 2
    /\ UsableBoxes = {1, 2}
    /\ d_boxes[1].conf > d_boxes[2].conf
    /\ d_result.conf = d_boxes[1].conf
    /\ d_result.bbox = <<3, 0, 4, 4>>

HeadLoading == prog = "triplet" /\ ckpt_seen # NoSeen

\* C20: the head is loaded from CKPT_PATH when a file exists there, otherwise
\* from the first file in string order among those matching the pattern;
\* with neither, the search ends with FileNotFoundError and prints nothing. The
\* two-stage search holds a head whenever it goes past loading, scores or prints.
C20_CheckpointResolution ==
    /\ HeadLoading =>
          IF ckpt_seen.at_path
          THEN pc = "embed" /\ head = "TinyHead" /\ ckpt_seen.ckpt_path = "CKPT_PATH"
          ELSE IF ckpt_seen.matches # <<>>
          THEN /\ pc = "embed" /\ head = "TinyHead"
               /\ ckpt_seen.ckpt_path \in Range(ckpt_seen.matches)
               /\ \A o \in Range(ckpt_seen.matches) :
                     NameRank(ckpt_seen.ckpt_path) <= NameRank(o)
          ELSE /\ pc = "failed"
               /\ err = "FileNotFoundError"
               /\ head = ""
               /\ stdout = <<>> /\ scores = <<>> /\ shortlist = <<>>
    /\ err = "FileNotFoundError" => (HeadLoading /\ ckpt_seen.matches = <<>>)
    /\ (prog = "triplet" /\ (pc \notin {"start", "failed"} \/ scores # <<>>
                             \/ stdout # <<>>))
          => head # ""

\* C20 witness: no file at CKPT_PATH, glob listed the matches in reverse string
\* order, and the first in string order was loaded.
C20_Witness ==
    /\ HeadLoading
    /\ ~ckpt_seen.at_path
    /\ ckpt_seen.matches = <<CkptNames[2], CkptNames[1]>>
    /\ ckpt_seen.ckpt_path = CkptNames[1]
    /\ head = "TinyHead"
    /\ pc = "embed"

\* The table gives the two-stage search nothing to score, whatever the filters.
EmptyForEveryFilter ==
    \A env \in SearchEnvs : ApplyFilters(LoadEmbeddings(store), env) = <<>>

\* C21: a two-stage search whose filtered dataset is empty never ends with the
\* missing-checkpoint error: it needs no rerank, so it completes with an empty
\* result list even when no checkpoint can be found.
C21_EmptyDatasetNeedsNoCheckpoint ==
    (prog = "triplet" /\ EmptyForEveryFilter) =>
        /\ err # "FileNotFoundError"
        /\ pc # "failed" \/ err = "RuntimeError: query dim"

BaselineDone == prog = "baseline" /\ Finished

\* C22: no desertion_no appears twice in the results of the head-less search.
C22_BaselineNoDuplicateIds ==
    BaselineDone =>
        \A i, j \in 1..Len(Results) :
            i # j => Results[i].desertion_no # Results[j].desertion_no

\* The entry (or result) e passes every filter that search_env makes active.
PassesActiveFilters(e) ==
    /\ search_env.SEARCH_ANIMAL_TYPE = "dog" => e.up_kind_cd = "417000"
    /\ search_env.SEARCH_ANIMAL_TYPE = "cat" => e.up_kind_cd = "422400"
    /\ search_env.SEARCH_GENDER = "male" => e.sex_cd \in {"M", "m"}
    /\ search_env.SEARCH_GENDER = "female" => e.sex_cd \in {"F", "f"}
    /\ FromIsoFormat(search_env.SEARCH_LOST_DATE).ok =>
          /\ e.notice_sdt # ""
          /\ FromIsoFormat(e.notice_sdt).ok
          /\ FromIsoFormat(e.notice_sdt).day >= FromIsoFormat(search_env.SEARCH_LOST_DATE).day

LoadedUnfiltered ==
    /\ store_read
    /\ \/ prog = "baseline"
       \/ /\ prog = "triplet"
          /\ search_env =
                [SEARCH_GENDER |-> "", SEARCH_LOST_DATE |-> "", SEARCH_ANIMAL_TYPE |-> ""]

\* C24: a stored vector longer than EMBED_DIM is used in the search, cut to
\* EMBED_DIM components: its row is an entry of the loaded dataset.
C24_OversizeStoredVectorIsUsed ==
    LoadedUnfiltered =>
        \A i \in 1..Len(store) :
            store[i].vec.size > EMBED_DIM =>
                \E n \in 1..Len(dataset) :
                    /\ dataset[n].desertion_no = store[i].desertion_no
                    /\ dataset[n].side = store[i].side
                    /\ dataset[n].vec.size = EMBED_DIM

\* Unit norm up to the precision of the fixed-point representation.
IsUnit(v) == Abs(Norm(v) - Scale) <= PgQuantum
IsZeroVec(v) == \A i \in 1..Len(v) : v[i] = 0

\* C25: every vector a write job collects for the store or commits to it has
\* unit norm (a projection may also be the zero vector), whether it is the
\* embedder's output, a random projection or a truncation.
C25_StoredVectorsUnitNorm ==
    \A row \in db \cup Range(to_save) :
        \A i \in 1..Len(row.vecs) :
            row.vecs[i] # NoneVec =>
                \/ IsUnit(row.vecs[i])
                \/ job = "prepare" /\ IsZeroVec(row.vecs[i])

\* random.choice is fair: a value it can return is not avoided forever, and a
\* call of __getitem__ that can go on does.
FairChoice ==
    /\ SF_vars(G_Resample /\ NegLoopExits(neg_id', did))
    /\ WF_vars(G_Return)

\* TripletDataset sampling under fair random choice.
DatasetFairSpec == DatasetInit /\ [][DatasetNext]_vars /\ FairChoice

\* C26: every __getitem__ call that reached the negative resampling loop returns
\* an example, whatever the dataset and the index.
C26_SamplingTerminates == (g_pc = "negloop") ~> (g_pc = "returned")

\* The distinct desertion_no values of the filtered dataset.
DatasetIds == {dataset[i].desertion_no : i \in 1..Len(dataset)}

\* C27: for topk >= 1 the two-stage search returns min(topk, number of distinct
\* desertion_no values in the filtered dataset) results, whatever COARSE_TOPK is.
C27_ReturnsMinOfKAndEntities ==
    (TwoStageDone /\ topk >= 1) =>
        Len(Results) = Min(topk, Cardinality(DatasetIds))

\* C28: the bbox of every DetectionResult is made of integers and lies inside
\* the image with positive width and height, wherever the proposals lie.
C28_BboxInsideImage ==
    d_pc = "returned" =>
        /\ Len(d_result.bbox) = 4
        /\ \A i \in 1..4 : d_result.bbox[i] \in Int
        /\ 0 <= d_result.bbox[1] /\ d_result.bbox[1] < d_result.bbox[3]
        /\ d_result.bbox[3] <= ImageWidth
        /\ 0 <= d_result.bbox[2] /\ d_result.bbox[2] < d_result.bbox[4]
        /\ d_result.bbox[4] <= ImageHeight

\* C28 witness: a proposal wholly outside the image with the higher confidence
\* was passed over, and the returned box is a proposal reaching over the top-left
\* corner, cut at the image border.
C28_Witness ==
    /\ d_pc = "returned"
    /\ Len(d_boxes) = 2
    /\ d_boxes[1].xyxy = <<50, 50, 70, 70>> /\ d_boxes[1].cls_id = 16
    /\ d_boxes[1].conf > d_boxes[2].conf
    /\ d_boxes[2].xyxy = <<-20, -10, 15, 20>> /\ d_boxes[2].cls_id = 15
    /\ d_result.conf = d_boxes[2].conf
    /\ d_result.bbox = <<0, 0, 1, 2>>

BetweenIterations == j_pc \in {"fetch", "final"} /\ f_log = <<>>

\* The targets of advanced_embedding_pipeline.process the committed upserts of
\* the run carried, one entry per row sent.
UpsertedTargets ==
    [n \in 1..Len(j_hist.upserted) |->
        [desertion_no |-> j_hist.upserted[n].desertion_no,
         side |-> j_hist.upserted[n].side]]

\* The targets fetched successfully so far in the run.
FetchedTargets ==
    {[desertion_no |-> Items(job)[j_hist.fetched[n].i].desertion_no,
      side |-> Items(job)[j_hist.fetched[n].i].side] : n \in 1..Len(j_hist.fetched)}

\* C29: in advanced_embedding_pipeline.process the batch holds fewer than
\* BATCH_SIZE items after every iteration; no target is upserted twice and only
\* fetched targets are upserted; when the run completes every fetched target was
\* upserted exactly once and processed + failures is the number of targets.
C29_ProcessBatchAccounting ==
    job = "process" =>
        /\ BetweenIterations => Len(to_save) < BATCH_SIZE
        /\ \A m, n \in 1..Len(UpsertedTargets) :
              m # n => UpsertedTargets[m] # UpsertedTargets[n]
        /\ Range(UpsertedTargets) \subseteq FetchedTargets
        /\ j_pc = "done" =>
              /\ Range(UpsertedTargets) = FetchedTargets
              /\ processed = Len(j_hist.fetched)
              /\ processed + failures = Len(Items(job))

\* C29 witness: the first target's fetch failed, the other two were flushed as a
\* full batch inside the loop, and the run completed.
C29_Witness ==
    /\ job = "process" /\ j_pc = "done" /\ j_run = 1
    /\ failures = 1
    /\ processed = 2
    /\ j_hist.fetched = <<[d |-> 1, i |-> 2], [d |-> 1, i |-> 3]>>
    /\ Len(j_hist.upserted) = 2

\* sync_range keeps running: the loop body is executed as long as the loop is on.
SyncFairSpec == SyncInit /\ [][SyncNext]_vars /\ WF_vars(SyncNext)

\* C30: the pagination loop of every sync_range ends, whatever the server holds
\* and whatever totalCount it reports.
C30_PaginationTerminates == <>(s_pc = "done")

====
